---- MODULE Spec2Model ----
(***************************************************************************)
(* CryptoSearch dashboard: the session orchestrator (App.tsx loadData and  *)
(* its handlers), the stream manager (services/binanceStream.ts) and the   *)
(* candle series kept by the stream callback.                              *)
(*                                                                         *)
(* One loadData invocation is an asynchronous task; every await of the     *)
(* source is one resolution action here.  The browser's single thread runs *)
(* each handler to its next await without interleaving, so each action is  *)
(* one atomic step.                                                        *)
(*                                                                         *)
(* State of App that no modelled branch reads is left out: query, the      *)
(* analysis text, trend, theme and the top-coins list.  Of the frames a     *)
(* socket has sent, which ones is kept, not how many or in which order.    *)
(***************************************************************************)
EXTENDS Integers, Sequences, FiniteSets, TLC

NULL == "null"
\* The null of a handle (socket, timer, abort controller); handles are 1, 2, ...
NoId == 0

\* ExchangeType and the order in which fetchAvailableTickers lists its probes.
Exchanges == {"Binance", "Bybit", "MEXC", "Gate", "OKX"}
Priority == <<"Binance", "Bybit", "MEXC", "Gate", "OKX">>
DefaultExchange == "Binance"

\* FetchStatus
IDLE == "IDLE"
LOADING == "LOADING"
SUCCESS == "SUCCESS"
ERROR == "ERROR"

\* The exchanges that list the symbols of the exploration: a ticker request
\* to one of them may succeed or fail, a request to another one fails.
Listing == {"Binance", "Bybit"}

\* What the user can type or click.
Terms == {"btc"}
Intervals == {"15m", "1h"}
DefaultInterval == "15m"
\* The values of the timeframe buttons of CryptoChart.
SelectorIntervals ==
  {"1s", "1m", "5m", "15m", "30m", "1h", "4h", "12h", "1d", "1w", "1M"}

toUpperCase(s) == CASE s = "btc" -> "BTC" [] s = "eth" -> "ETH" [] OTHER -> s

\* Bounds of the exploration: loadData invocations (and sockets) per run,
\* candle frames per subscription, candles of a short history batch, candle
\* frames after a full history batch.
MaxLoads == 3
MaxMsgs == 1
MaxBatch == 1
MaxSeriesMsgs == 4
\* Candles of an indicator's input, and the highest price in it.
MaxCandles == 5
MaxClose == 3
\* Candles of a widening series, an input of the Parabolic SAR, and how
\* many of them at its end move freely.
MaxWalk == 12
MaxTurns == 5

\* limit of the history request, and the literal of the stream callback.
Limit == 500
StreamCap == 500

CallIds == 1..MaxLoads
SockIds == 1..MaxLoads

VARIABLES
  status, displayedSymbol, interval, tickerData, availableExchanges,
  klineData, isAnalyzing,
  klineDataRef, abortControllerRef,
  calls,
  ws, pingInterval, sockets, timers,
  nLoads, nSocks, msgsLeft,
  fetchCall, ind

reactVars == <<status, displayedSymbol, interval, tickerData,
               availableExchanges, klineData, isAnalyzing>>
refVars == <<klineDataRef, abortControllerRef>>
streamVars == <<ws, pingInterval, sockets, timers>>
\* The dashboard, and the calls into the service and indicator functions.
dashVars == <<reactVars, refVars, calls, streamVars, nLoads, nSocks, msgsLeft>>
svcVars == <<fetchCall, ind>>
vars == <<dashVars, svcVars>>

----------------------------------------------------------------------------
(* Candles.  time is the opening time of the candle's bucket in            *)
(* milliseconds, the buckets being one second wide; close tells a streamed  *)
(* value (1) from a history value (0); src is the request the candle        *)
(* answers: <<symbol, exchange, interval>>.                                 *)

\* Milliseconds in a second: the factor of the Gate branches.
SecondMs == 1000

Candle(t, c, src) == [time |-> t, close |-> c, src |-> src]

\* A history batch as fetchKlines returns it: n candles in ascending order.
Batch(n, src) == [i \in 1..n |-> Candle(SecondMs * i, 0, src)]

Front(s) == SubSeq(s, 1, Len(s) - 1)
Last(s) == s[Len(s)]

----------------------------------------------------------------------------
(* services/binanceStream.ts.  The module owns ws and pingInterval; the     *)
(* browser owns the sockets and the interval timers.  A socket that was     *)
(* closed delivers no further open or message event.  The operators take    *)
(* and return the four of them as one record.                               *)

NoSocket == [state |-> "NONE", exchange |-> NULL, symbol |-> NULL,
             interval |-> NULL, token |-> NULL, sent |-> {}]
ClosedSocket == [NoSocket EXCEPT !.state = "CLOSED"]

StreamState == [ws |-> ws, pingInterval |-> pingInterval,
                sockets |-> sockets, timers |-> timers]

\* Period of the keep-alive timer the onopen handler of an exchange starts
\* (0: the Binance branch sets no onopen handler).
KeepAliveMs(exchange) ==
  CASE exchange = "Bybit" -> 20000
    [] exchange = "MEXC" -> 30000
    [] exchange = "Gate" -> 30000
    [] exchange = "OKX" -> 20000
    [] OTHER -> 0

\* Faulty variant: the socket is closed but its handle kept.
closeWebSocketKeepsHandle(st) ==
  LET st1 == IF st.pingInterval # NoId
               THEN [st EXCEPT !.timers[st.pingInterval] = 0,
                               !.pingInterval = NoId]
               ELSE st
  IN IF st1.ws # NoId
       THEN [st1 EXCEPT !.sockets[st1.ws] = ClosedSocket]
       ELSE st1

closeWebSocket(st) ==
  LET st1 == IF st.pingInterval # NoId
               THEN [st EXCEPT !.timers[st.pingInterval] = 0,
                               !.pingInterval = NoId]
               ELSE st
  IN IF st1.ws # NoId
       THEN [st1 EXCEPT !.sockets[st1.ws] = ClosedSocket, !.ws = NoId]
       ELSE st1

unsubscribeKline(st) == closeWebSocket(st)

\* interval.endsWith('m') and interval.replace('m', '') on the values of the
\* timeframe buttons ('1M' ends with an upper-case M).
endsWithM(intv) == intv \in {"1m", "5m", "15m", "30m"}
replaceM(intv) ==
  CASE intv = "1m" -> "1" [] intv = "5m" -> "5" [] intv = "15m" -> "15"
    [] intv = "30m" -> "30" [] OTHER -> intv

\* The interval as the socket is told it: in the stream name (Binance L23),
\* in the topic (Bybit L45-48, L53), in the channel (MEXC L84-95, OKX
\* L161-164, L169) or in the payload (Gate L131).
streamInterval(exchange, intv) ==
  CASE exchange = "Bybit" ->
         LET a == IF endsWithM(intv) THEN replaceM(intv) ELSE intv
             b == IF intv = "1h" THEN "60" ELSE a
         IN IF intv = "1d" THEN "D" ELSE b
    [] exchange = "MEXC" ->
         CASE intv = "1m" -> "Min1" [] intv = "5m" -> "Min5"
           [] intv = "15m" -> "Min15" [] intv = "30m" -> "Min30"
           [] intv = "1h" -> "Min60" [] intv = "4h" -> "Min240"
           [] intv = "1d" -> "Day1" [] OTHER -> "Min15"
    [] exchange = "OKX" ->
         CASE intv = "1h" -> "1H" [] intv = "4h" -> "4H" [] intv = "1d" -> "1D"
           [] OTHER -> intv
    [] OTHER -> intv

\* Faulty variant: the new socket is opened over the old one.
subscribeToKlineNoTeardown(st, id, symbol, intv, exchange) ==
  [st EXCEPT !.ws = id,
             !.sockets[id] = [state |-> "CONNECTING", exchange |-> exchange,
                              symbol |-> symbol, interval |-> intv,
                              token |-> streamInterval(exchange, intv),
                              sent |-> {}]]

\* id is the identity of the socket that new WebSocket(...) creates.
subscribeToKline(st, id, symbol, intv, exchange) ==
  LET st1 == IF st.ws # NoId THEN closeWebSocket(st) ELSE st
  IN [st1 EXCEPT !.ws = id,
                 !.sockets[id] = [state |-> "CONNECTING", exchange |-> exchange,
                                  symbol |-> symbol, interval |-> intv,
                                  token |-> streamInterval(exchange, intv),
                                  sent |-> {}]]

\* The frames the module sends: the subscribe request of onopen and the
\* keep-alive message of the exchange's timer (L59, L101, L137, L175).
SubscribeFrame(socket) == [kind |-> "subscribe", text |-> socket.token]
KeepAliveFrame(exchange) ==
  [kind |-> "keepalive",
   text |-> CASE exchange = "Bybit" -> "{op:ping}"
              [] exchange = "MEXC" -> "{method:PING}"
              [] exchange = "Gate" -> "{channel:spot.pong}"
              [] exchange = "OKX" -> "ping"
              [] OTHER -> NULL]

\* ws?.send(frame): the frame goes out on the current socket; send on a
\* socket that is not open does not transmit.
send(st, frame) ==
  IF st.ws # NoId /\ st.sockets[st.ws].state = "OPEN"
    THEN [st EXCEPT !.sockets[st.ws].sent = @ \cup {frame}]
    ELSE st

\* ws.onopen of socket s: the subscribe frame is sent and the keep-alive
\* timer started; the Binance branch has no onopen handler.
onopen(st, s) ==
  LET st1 == [st EXCEPT !.sockets[s].state = "OPEN"]
  IN IF KeepAliveMs(st.sockets[s].exchange) > 0
       THEN [send(st1, SubscribeFrame(st.sockets[s])) EXCEPT
               !.pingInterval = s,
               !.timers[s] = KeepAliveMs(st.sockets[s].exchange)]
       ELSE st1

\* The browser gives up the connection of socket s; its readyState leaves
\* OPEN and the error event is dispatched.
connectionFails(st, s) == [st EXCEPT !.sockets[s].state = "CLOSED"]

\* Faulty variant: the error handler tears the subscription down.
onerrorTearsDown(st, s) == closeWebSocket(st)

\* ws.onerror = (e) => console.log('WS Error', e)
onerror(st, s) == st

\* Faulty variant: the tick does not look at readyState.
tickUnguarded(st, i) ==
  IF st.ws # NoId
    THEN [st EXCEPT !.sockets[st.ws].sent =
                      @ \cup {KeepAliveFrame(st.sockets[i].exchange)}]
    ELSE st

\* The callback of timer i, which the onopen of socket i started:
\* if (ws?.readyState === WebSocket.OPEN) ws.send(keep-alive)
tick(st, i) ==
  IF st.ws # NoId /\ st.sockets[st.ws].state = "OPEN"
    THEN send(st, KeepAliveFrame(st.sockets[i].exchange))
    ELSE st

SetStream(st) ==
  /\ ws' = st.ws
  /\ pingInterval' = st.pingInterval
  /\ sockets' = st.sockets
  /\ timers' = st.timers

LiveSockets == {s \in SockIds : sockets[s].state \in {"CONNECTING", "OPEN"}}
ArmedTimers == {i \in SockIds : timers[i] > 0}

----------------------------------------------------------------------------
(* The stream callback of loadData: merge-one on klineDataRef.              *)

\* Faulty variant: the new candle always goes to the end.
mergeOneAlwaysAppend(currentData, newCandle) ==
  IF Len(currentData) > StreamCap
    THEN Append(Tail(currentData), newCandle)
    ELSE Append(currentData, newCandle)

mergeOne(currentData, newCandle) ==
  LET lastCandle == Last(currentData)
  IN IF newCandle.time = lastCandle.time
       THEN Append(Front(currentData), newCandle)
       ELSE IF Len(currentData) > StreamCap
              THEN Append(Tail(currentData), newCandle)
              ELSE Append(currentData, newCandle)

\* The callback as a whole: the value of klineDataRef after it ran.
streamCallback(currentData, newCandle) ==
  IF Len(currentData) = 0 THEN currentData ELSE mergeOne(currentData, newCandle)

----------------------------------------------------------------------------
(* services/binanceService: what the orchestrator sees of the fetchers.     *)

NoTicker == [symbol |-> NULL, exchange |-> NULL]
Ticker(symbol, exchange) == [symbol |-> symbol, exchange |-> exchange]

\* Faulty variant: only the answer of the first exchange is kept.
FulfilledFirstOnly(symbol, up, i) ==
  IF Priority[1] \in up THEN <<Ticker(symbol, Priority[1])>> ELSE <<>>

\* The elements of Priority whose probe succeeded, in that order.
RECURSIVE Fulfilled(_, _, _)
Fulfilled(symbol, up, i) ==
  IF i > Len(Priority) THEN <<>>
  ELSE IF Priority[i] \in up
         THEN <<Ticker(symbol, Priority[i])>> \o Fulfilled(symbol, up, i + 1)
         ELSE Fulfilled(symbol, up, i + 1)

\* Faulty variant: Promise.all in place of Promise.allSettled, one failure loses all.
fetchAvailableTickersAll(symbol, up) ==
  IF up = Exchanges THEN Fulfilled(symbol, up, 1) ELSE <<>>

\* up is the set of exchanges whose ticker fetch is fulfilled.
fetchAvailableTickers(symbol, up) == Fulfilled(symbol, up, 1)

ExchangesOf(tickers) == [i \in 1..Len(tickers) |-> tickers[i].exchange]
Range(f) == {f[i] : i \in DOMAIN f}

----------------------------------------------------------------------------
(* services/binanceService: URLs.  A string is the sequence of its parts,   *)
(* each reserved character a part of its own, so that building, encoding    *)
(* and stripping act on it as they do on the characters.                    *)

BINANCE_API == <<"https", ":", "/", "/", "api.binance.com", "/", "api", "/", "v3">>
BYBIT_API == <<"https", ":", "/", "/", "api.bybit.com", "/", "v5", "/", "market">>
MEXC_API == <<"https", ":", "/", "/", "api.mexc.com", "/", "api", "/", "v3">>
GATE_API == <<"https", ":", "/", "/", "api.gateio.ws", "/", "api", "/", "v4">>
OKX_API == <<"https", ":", "/", "/", "www.okx.com", "/", "api", "/", "v5", "/", "market">>
PROXY_URL == <<"https", ":", "/", "/", "api.allorigins.win", "/", "get", "?", "url", "=">>

\* The characters encodeURIComponent escapes, of those a URL here is made of.
Reserved == {":", "/", "?", "=", "&"}

encodeChar(c) ==
  CASE c = ":" -> "%3A"
    [] c = "/" -> "%2F"
    [] c = "?" -> "%3F"
    [] c = "=" -> "%3D"
    [] c = "&" -> "%26"
    [] OTHER -> c

\* Faulty variant: the target is appended as it is.
encodeURIComponentRaw(url) == url

encodeURIComponent(url) == [i \in 1..Len(url) |-> encodeChar(url[i])]

\* L83-90
getExchangeSymbol(symbol, exchange) ==
  LET s == toUpperCase(symbol)
  IN CASE exchange = "Gate" -> <<s, "_", "USDT">>
       [] exchange = "OKX" -> <<s, "-", "USDT">>
       [] OTHER -> <<s, "USDT">>

\* The URL each ticker fetcher requests (L160-192).
tickerUrl(symbol, exchange) ==
  LET formatted == getExchangeSymbol(symbol, exchange)
  IN CASE exchange = "Binance" ->
            BINANCE_API \o <<"/", "ticker", "/", "24hr", "?", "symbol", "=">> \o formatted
       [] exchange = "Bybit" ->
            BYBIT_API \o <<"/", "tickers", "?", "category", "=", "spot", "&",
                           "symbol", "=">> \o formatted
       [] exchange = "MEXC" ->
            MEXC_API \o <<"/", "ticker", "/", "24hr", "?", "symbol", "=">> \o formatted
       [] exchange = "Gate" ->
            GATE_API \o <<"/", "spot", "/", "tickers", "?", "currency_pair", "=">>
                     \o formatted
       [] exchange = "OKX" ->
            OKX_API \o <<"/", "ticker", "?", "instId", "=">> \o formatted

----------------------------------------------------------------------------
(* JSON values, as far as the fetchers look into them: the top-level shape, *)
(* the top-level fields that are present, the status code field (retCode    *)
(* of Bybit, code of OKX and of the error bodies), the list the tickers     *)
(* are in (result.list of Bybit, data of OKX, the array itself of Gate) and *)
(* the symbol field.  <<>> is the symbol that is undefined; "result.list"   *)
(* among the fields says that result has a list.                            *)

NoSymbol == <<>>
NoCode == "undefined"

Json(top, fields, code, list, symbol) ==
  [top |-> top, fields |-> fields, code |-> code, list |-> list, symbol |-> symbol]

\* An element of a ticker list: its fields and its symbol field.
Item(fields, symbol) == [fields |-> fields, symbol |-> symbol]

NoValue == Json("none", {}, NoCode, <<>>, NoSymbol)
NullValue == Json("null", {}, NoCode, <<>>, NoSymbol)
StringValue == Json("string", {}, NoCode, <<>>, NoSymbol)

BinanceFields == {"symbol", "priceChange", "priceChangePercent", "lastPrice",
                  "highPrice", "lowPrice", "quoteVolume"}
BybitFields == {"symbol", "prevPrice24h", "price24hPcnt", "lastPrice",
                "highPrice24h", "lowPrice24h", "turnover24h"}
GateFields == {"currency_pair", "last", "change_percentage", "high_24h",
               "low_24h", "quote_volume"}
OkxFields == {"instId", "last", "open24h", "high24h", "low24h", "volCcy24h"}

\* What an exchange answers for a symbol it lists.
TickerBody(exchange, symbol) ==
  LET formatted == getExchangeSymbol(symbol, exchange)
  IN CASE exchange \in {"Binance", "MEXC"} ->
            Json("object", BinanceFields, NoCode, <<>>, formatted)
       [] exchange = "Bybit" ->
            Json("object", {"retCode", "retMsg", "result", "result.list"}, "0",
                 <<Item(BybitFields, formatted)>>, NoSymbol)
       [] exchange = "Gate" ->
            Json("array", {}, NoCode, <<Item(GateFields, formatted)>>, NoSymbol)
       [] exchange = "OKX" ->
            Json("object", {"code", "msg", "data"}, "0",
                 <<Item(OkxFields, formatted)>>, NoSymbol)

\* What an exchange answers for a symbol it does not list: an error object,
\* or (Bybit, OKX, Gate) a success envelope around an empty list.
ErrorBody(exchange) ==
  CASE exchange \in {"Binance", "MEXC"} ->
         Json("object", {"code", "msg"}, "-1121", <<>>, NoSymbol)
    [] exchange = "Bybit" ->
         Json("object", {"retCode", "retMsg", "result"}, "10001", <<>>, NoSymbol)
    [] exchange = "Gate" ->
         Json("object", {"label", "message"}, NoCode, <<>>, NoSymbol)
    [] exchange = "OKX" ->
         Json("object", {"code", "msg", "data"}, "51001", <<>>, NoSymbol)

EmptyBody(exchange) ==
  CASE exchange = "Bybit" ->
         Json("object", {"retCode", "retMsg", "result", "result.list"}, "0",
              <<>>, NoSymbol)
    [] exchange = "Gate" -> Json("array", {}, NoCode, <<>>, NoSymbol)
    [] exchange = "OKX" -> Json("object", {"code", "msg", "data"}, "0", <<>>, NoSymbol)
    [] OTHER -> Json("object", {}, NoCode, <<>>, NoSymbol)

Bodies(exchange, symbol) ==
  {TickerBody(exchange, symbol), ErrorBody(exchange), EmptyBody(exchange),
   NullValue, StringValue}

----------------------------------------------------------------------------
(* services/binanceService: fetchWithFallback.  fetchCall is one call of a  *)
(* fetcher: the URL it asks for, the requests it has issued (log), the      *)
(* responses it got, what fetchWithFallback gave back (data) and what the   *)
(* fetcher gave back (result).                                              *)

\* A response to the direct request: net is "error" when fetch rejects, ok
\* is res.ok, json tells whether res.json() yields a value, body is that
\* value.
Response(net, ok, json, body) == [net |-> net, ok |-> ok, json |-> json, body |-> body]
NoResponse == Response("none", FALSE, FALSE, NoValue)

\* The contents string of the relay's envelope: JSON text of a value, text
\* that is not JSON, the empty string, or no contents field at all.
JsonText(v) == [kind |-> "json", value |-> v]
RawText == [kind |-> "raw", value |-> NoValue]
EmptyText == [kind |-> "empty", value |-> NoValue]
AbsentText == [kind |-> "absent", value |-> NoValue]

\* A response of the relay: as Response, with the envelope's contents.
Envelope(net, ok, json, contents) ==
  [net |-> net, ok |-> ok, json |-> json, contents |-> contents]
NoEnvelope == Envelope("none", FALSE, FALSE, EmptyText)

\* What a promise of fetchWithFallback settles with.
Value(v) == [kind |-> "value", value |-> v, error |-> NULL]
Err(e) == [kind |-> "error", value |-> NoValue, error |-> e]
NoOutcome == [kind |-> "none", value |-> NoValue, error |-> NULL]

\* L50-53: the try block.
directAttempt(res) ==
  IF res.net # "ok" THEN Err("TypeError")
  ELSE IF res.ok
         THEN IF res.json THEN Value(res.body) ELSE Err("SyntaxError")
         ELSE Err("Direct fetch failed")

\* L57-58
proxyUrlOf(url) == PROXY_URL \o encodeURIComponent(url)

\* L59-75: the relay's response is unwrapped; if (proxyData.contents) is
\* false for the empty string as for a missing field.
relayAttempt(res) ==
  IF res.net # "ok" THEN Err("TypeError")
  ELSE IF ~res.ok THEN Err("Proxy fetch failed")
  ELSE IF ~res.json THEN Err("SyntaxError")
  ELSE IF res.contents.kind \in {"empty", "absent"}
    THEN Err("Proxy response missing contents")
  ELSE IF res.contents.kind = "json" THEN Value(res.contents.value)
  ELSE Value(StringValue)

----------------------------------------------------------------------------
(* services/binanceService: the ticker mappers and fetchers.  A TickerData  *)
(* is kept as its symbol, the set of its other fields that are defined      *)
(* (not undefined), and its exchange.                                       *)

TickerFields == {"priceChange", "priceChangePercent", "lastPrice",
                 "highPrice", "lowPrice", "volume"}

Snapshot(symbol, defined, exchange) ==
  [symbol |-> symbol, defined |-> defined, exchange |-> exchange]
NoSnapshot == Snapshot(NoSymbol, {}, NULL)

\* What a promise of a ticker fetcher settles with.
Resolved(ticker) == [kind |-> "value", ticker |-> ticker, error |-> NULL]
Rejected(e) == [kind |-> "error", ticker |-> NoSnapshot, error |-> e]
NoResult == [kind |-> "none", ticker |-> NoSnapshot, error |-> NULL]

\* String.prototype.replace(ch, ''): the first occurrence is removed.
replaceFirst(s, ch) ==
  IF \E i \in 1..Len(s) : s[i] = ch
    THEN LET i == CHOOSE k \in 1..Len(s) :
                    s[k] = ch /\ \A j \in 1..(k - 1) : s[j] # ch
         IN SubSeq(s, 1, i - 1) \o SubSeq(s, i + 1, Len(s))
    ELSE s

\* The fields of the answer a field of TickerData is copied from.
BinanceSource(f) == IF f = "volume" THEN "quoteVolume" ELSE f

\* L94-103, L119-128: every field is copied, present or not.
mapBinanceTicker(data, exchange) ==
  Snapshot(IF "symbol" \in data.fields THEN data.symbol ELSE NoSymbol,
           {f \in TickerFields : BinanceSource(f) \in data.fields},
           exchange)

\* L105-117: priceChange and priceChangePercent are computed strings.
mapBybitTicker(data) ==
  LET t == data.list[1]
  IN Snapshot(IF "symbol" \in t.fields THEN t.symbol ELSE NoSymbol,
              {"priceChange", "priceChangePercent"}
                \cup (IF "lastPrice" \in t.fields THEN {"lastPrice"} ELSE {})
                \cup (IF "highPrice24h" \in t.fields THEN {"highPrice"} ELSE {})
                \cup (IF "lowPrice24h" \in t.fields THEN {"lowPrice"} ELSE {})
                \cup (IF "turnover24h" \in t.fields THEN {"volume"} ELSE {}),
              "Bybit")

\* L130-139, on an element that has currency_pair.
mapGateTicker(t) ==
  Snapshot(replaceFirst(t.symbol, "_"),
           {"priceChange"}
             \cup (IF "change_percentage" \in t.fields THEN {"priceChangePercent"} ELSE {})
             \cup (IF "last" \in t.fields THEN {"lastPrice"} ELSE {})
             \cup (IF "high_24h" \in t.fields THEN {"highPrice"} ELSE {})
             \cup (IF "low_24h" \in t.fields THEN {"lowPrice"} ELSE {})
             \cup (IF "quote_volume" \in t.fields THEN {"volume"} ELSE {}),
           "Gate")

\* L141-155, on an answer whose first element has instId.
mapOkxTicker(data) ==
  LET t == data.list[1]
  IN Snapshot(replaceFirst(t.symbol, "-"),
              {"priceChange", "priceChangePercent"}
                \cup (IF "last" \in t.fields THEN {"lastPrice"} ELSE {})
                \cup (IF "high24h" \in t.fields THEN {"highPrice"} ELSE {})
                \cup (IF "low24h" \in t.fields THEN {"lowPrice"} ELSE {})
                \cup (IF "volCcy24h" \in t.fields THEN {"volume"} ELSE {}),
              "OKX")

\* L160-164: no check; reading a field of null throws.
fetchBinanceTicker(data) ==
  IF data.top = "null" THEN Rejected("TypeError")
  ELSE Resolved(mapBinanceTicker(data, "Binance"))

\* L166-171
fetchBybitTicker(data) ==
  IF data.top = "null" THEN Rejected("TypeError")
  ELSE IF data.code # "0" \/ "result.list" \notin data.fields
          \/ Len(data.list) = 0
    THEN Rejected("Bybit not found")
  ELSE Resolved(mapBybitTicker(data))

\* L173-178
fetchMexcTicker(data) ==
  IF data.top = "null" THEN Rejected("TypeError")
  ELSE IF "symbol" \notin data.fields THEN Rejected("MEXC invalid data")
  ELSE Resolved(mapBinanceTicker(data, "MEXC"))

\* L180-185: an object or a string passes the length check, and the mapper
\* throws on the element it finds.
fetchGateTicker(data) ==
  IF data.top = "null" \/ (data.top = "array" /\ Len(data.list) = 0)
    THEN Rejected("Gate not found")
  ELSE IF data.top # "array" \/ "currency_pair" \notin data.list[1].fields
    THEN Rejected("TypeError")
  ELSE Resolved(mapGateTicker(data.list[1]))

\* L187-192
fetchOkxTicker(data) ==
  IF data.top = "null" THEN Rejected("TypeError")
  ELSE IF data.code # "0" \/ Len(data.list) = 0 THEN Rejected("OKX not found")
  ELSE IF "instId" \notin data.list[1].fields THEN Rejected("TypeError")
  ELSE Resolved(mapOkxTicker(data))

\* L196-205, on what fetchWithFallback settled with: its rejection is the
\* fetcher's.
fetchTicker(exchange, outcome) ==
  IF outcome.kind = "error" THEN Rejected(outcome.error)
  ELSE CASE exchange = "Binance" -> fetchBinanceTicker(outcome.value)
         [] exchange = "Bybit" -> fetchBybitTicker(outcome.value)
         [] exchange = "MEXC" -> fetchMexcTicker(outcome.value)
         [] exchange = "Gate" -> fetchGateTicker(outcome.value)
         [] exchange = "OKX" -> fetchOkxTicker(outcome.value)

IdleFetch == [pc |-> "idle", exchange |-> NULL, symbol |-> NULL,
              url |-> <<>>, log |-> <<>>,
              direct |-> NoResponse, relay |-> NoEnvelope,
              data |-> NoOutcome, result |-> NoResult]

\* A ticker fetcher is called: the direct request goes out (L50).
FetchStart(symbol, exchange) ==
  /\ fetchCall.pc \in {"idle", "done"}
  /\ fetchCall' = [IdleFetch EXCEPT !.pc = "direct",
                                    !.exchange = exchange,
                                    !.symbol = symbol,
                                    !.url = tickerUrl(symbol, exchange),
                                    !.log = <<tickerUrl(symbol, exchange)>>]
  /\ UNCHANGED <<dashVars, ind>>

\* The direct request settles: its value is the fetcher's input, or the
\* relay is asked (L54-58).
DirectSettles(res) ==
  LET out == directAttempt(res) IN
  /\ fetchCall.pc = "direct"
  /\ IF out.kind = "value"
       THEN fetchCall' = [fetchCall EXCEPT
                            !.pc = "done", !.direct = res, !.data = out,
                            !.result = fetchTicker(fetchCall.exchange, out)]
       ELSE fetchCall' = [fetchCall EXCEPT
                            !.pc = "relay", !.direct = res,
                            !.log = Append(@, proxyUrlOf(fetchCall.url))]
  /\ UNCHANGED <<dashVars, ind>>

\* The relay's request settles (L59-79).
RelaySettles(res) ==
  LET out == relayAttempt(res) IN
  /\ fetchCall.pc = "relay"
  /\ fetchCall' = [fetchCall EXCEPT
                     !.pc = "done", !.relay = res, !.data = out,
                     !.result = fetchTicker(fetchCall.exchange, out)]
  /\ UNCHANGED <<dashVars, ind>>

----------------------------------------------------------------------------
(* services/binanceService: fetchKlines.  A row of a candle answer is its   *)
(* first element t (the open time, in the unit of the exchange), or the     *)
(* null that no element can be read from.  Bucket i opens at 1000 * i ms.   *)

Row(t) == [t |-> t, ok |-> TRUE]
NullRow == [t |-> 0, ok |-> FALSE]

Reverse(s) == [i \in 1..Len(s) |-> s[Len(s) + 1 - i]]

\* What an exchange answers for the buckets 1..n: Binance, MEXC and Gate
\* oldest first, Bybit and OKX newest first; Gate in seconds.
KlinesBody(exchange, n) ==
  CASE exchange \in {"Binance", "MEXC"} ->
         Json("array", {}, NoCode, [i \in 1..n |-> Row(1000 * i)], NoSymbol)
    [] exchange = "Gate" ->
         Json("array", {}, NoCode, [i \in 1..n |-> Row(i)], NoSymbol)
    [] exchange = "Bybit" ->
         Json("object", {"retCode", "retMsg", "result", "result.list"}, "0",
              [i \in 1..n |-> Row(1000 * (n + 1 - i))], NoSymbol)
    [] exchange = "OKX" ->
         Json("object", {"code", "msg", "data"}, "0",
              [i \in 1..n |-> Row(1000 * (n + 1 - i))], NoSymbol)

\* The same answer shape around one row that is null.
NullRowBody(exchange) == [KlinesBody(exchange, 0) EXCEPT !.list = <<NullRow>>]

\* What fetchKlines settles with: the candles (their times), and whether the
\* catch block logged an error; or, in a faulty variant, a rejection.
Got(candles, logged) == [kind |-> "value", candles |-> candles, logged |-> logged]
Thrown == [kind |-> "error", candles |-> <<>>, logged |-> FALSE]

\* The time of a candle as the exchange's branch converts it (L235, L252,
\* L261, L269, L287).
klineTime(exchange, row) == IF exchange = "Gate" THEN row.t * 1000 ELSE row.t

mapRows(exchange, rows) ==
  IF \E i \in 1..Len(rows) : ~rows[i].ok THEN Thrown
  ELSE Got([i \in 1..Len(rows) |-> [time |-> klineTime(exchange, rows[i])]], FALSE)

\* The interval as the candle request names it: interval (L232, L256,
\* L265), bybitInterval (L240-246), okxInterval (L279-282).
klinesInterval(exchange, intv) ==
  CASE exchange = "Bybit" ->
         LET a == IF endsWithM(intv) THEN replaceM(intv) ELSE intv
             b == IF intv = "1h" THEN "60" ELSE a
             c == IF intv = "4h" THEN "240" ELSE b
             d == IF intv = "1d" THEN "D" ELSE c
             e == IF intv = "1w" THEN "W" ELSE d
         IN IF intv = "1M" THEN "M" ELSE e
    [] exchange = "OKX" ->
         CASE intv = "1h" -> "1H" [] intv = "4h" -> "4H" [] intv = "1d" -> "1D"
           [] OTHER -> intv
    [] OTHER -> intv

\* L230-295: the try block, on what fetchWithFallback settled with.
klinesAttempt(exchange, outcome) ==
  LET data == outcome.value IN
  IF outcome.kind = "error" THEN Thrown
  ELSE CASE exchange \in {"Binance", "MEXC", "Gate"} ->
              IF data.top # "array" THEN Thrown ELSE mapRows(exchange, data.list)
         [] exchange = "Bybit" ->
              IF data.top # "object" \/ "result.list" \notin data.fields THEN Thrown
              ELSE mapRows(exchange, Reverse(data.list))
         [] exchange = "OKX" ->
              IF data.top # "object" \/ "data" \notin data.fields THEN Thrown
              ELSE mapRows(exchange, Reverse(data.list))

\* Faulty variant: the failure is passed on to the caller.
fetchKlinesRethrows(exchange, outcome) == klinesAttempt(exchange, outcome)

\* L227-302: whatever is thrown in the try block is logged and [] returned.
fetchKlines(exchange, outcome) ==
  LET r == klinesAttempt(exchange, outcome)
  IN IF r.kind = "error" THEN Got(<<>>, TRUE) ELSE r

\* The ways the candle request of an exchange may end well: a batch of
\* 0..MaxBatch candles.
BatchOutcomes(exchange) ==
  {Value(KlinesBody(exchange, n)) : n \in 0..MaxBatch}

\* All the ways it may end: also no answer, an answer of another shape, a
\* null row.
KlineOutcomes(exchange) ==
  {Err("Proxy fetch failed"), Value(ErrorBody(exchange)), Value(NullValue),
   Value(StringValue), Value(NullRowBody(exchange))}
    \cup BatchOutcomes(exchange)

----------------------------------------------------------------------------
(* utils/indicators: numbers.  A double is kept as the exact rational it    *)
(* stands for (rounding is not modelled), or as one of the values a         *)
(* division by zero yields: Infinity, -Infinity, NaN.  Null is the null of  *)
(* an output slot.                                                          *)

Abs(a) == IF a < 0 THEN -a ELSE a

RECURSIVE GCD(_, _)
GCD(a, b) == IF b = 0 THEN a ELSE GCD(b, a % b)

\* n / d in lowest terms, d > 0.
Num(n, d) ==
  LET g == GCD(Abs(n), d)
  IN [kind |-> "num", n |-> n \div g, d |-> d \div g]

Whole(a) == [kind |-> "num", n |-> a, d |-> 1]
NaN == [kind |-> "nan", n |-> 0, d |-> 1]
\* s is 1 or -1
Inf(s) == [kind |-> "inf", n |-> s, d |-> 1]
Null == [kind |-> "null", n |-> 0, d |-> 1]

Sign(x) == IF x.n > 0 THEN 1 ELSE IF x.n < 0 THEN -1 ELSE 0

Neg(x) == [x EXCEPT !.n = -x.n]

Add(x, y) ==
  IF x.kind = "nan" \/ y.kind = "nan" THEN NaN
  ELSE IF x.kind = "inf"
         THEN IF y.kind = "inf" /\ y.n # x.n THEN NaN ELSE x
  ELSE IF y.kind = "inf" THEN y
  ELSE Num(x.n * y.d + y.n * x.d, x.d * y.d)

Sub(x, y) == Add(x, Neg(y))

Mul(x, y) ==
  IF x.kind = "nan" \/ y.kind = "nan" THEN NaN
  ELSE IF x.kind = "inf" \/ y.kind = "inf"
         THEN IF Sign(x) * Sign(y) = 0 THEN NaN ELSE Inf(Sign(x) * Sign(y))
  ELSE Num(x.n * y.n, x.d * y.d)

\* x / y of doubles: no division raises.
Div(x, y) ==
  IF x.kind = "nan" \/ y.kind = "nan" THEN NaN
  ELSE IF y.kind = "inf"
         THEN IF x.kind = "inf" THEN NaN ELSE Whole(0)
  ELSE IF x.kind = "inf"
         THEN Inf(IF Sign(y) < 0 THEN -x.n ELSE x.n)
  ELSE IF y.n = 0
         THEN IF x.n = 0 THEN NaN ELSE Inf(Sign(x))
  ELSE Num(x.n * y.d * Sign(y), x.d * Abs(y.n))

\* x < y of doubles: false when either is NaN.
Less(x, y) ==
  /\ x.kind # "nan" /\ y.kind # "nan"
  /\ IF x.kind = "inf" THEN x.n < 0 /\ ~(y.kind = "inf" /\ y.n < 0)
     ELSE IF y.kind = "inf" THEN y.n > 0
     ELSE x.n * y.d < y.n * x.d

----------------------------------------------------------------------------
(* utils/indicators: calculateRSI.  A candle is its four prices, integers   *)
(* here; indices are those of the source (from 0), data[i] of the source    *)
(* is data[i + 1].                                                          *)

Kline(o, h, l, c) == [open |-> o, high |-> h, low |-> l, close |-> c]

\* L67-69
change(data, i) == data[i + 1].close - data[i].close
gain(data, i) == IF change(data, i) > 0 THEN change(data, i) ELSE 0
loss(data, i) == IF change(data, i) < 0 THEN Abs(change(data, i)) ELSE 0

\* L77-78, L82-83: rs = avgGain / avgLoss; 100 - (100 / (1 + rs))
rsiOf(avgGain, avgLoss) ==
  LET rs == Div(avgGain, avgLoss)
  IN Sub(Whole(100), Div(Whole(100), Add(Whole(1), rs)))

\* L66-85: result[i], result[i + 1], ... given avgGain and avgLoss as the
\* iterations before i left them.
RECURSIVE rsiFrom(_, _, _, _, _)
rsiFrom(data, period, i, avgGain, avgLoss) ==
  IF i >= Len(data) THEN <<>>
  ELSE IF i < period
    THEN <<Null>> \o rsiFrom(data, period, i + 1,
                             Add(avgGain, Whole(gain(data, i))),
                             Add(avgLoss, Whole(loss(data, i))))
  ELSE LET g == IF i = period
                  THEN Div(avgGain, Whole(period))
                  ELSE Div(Add(Mul(avgGain, Whole(period - 1)), Whole(gain(data, i))),
                           Whole(period))
           l == IF i = period
                  THEN Div(avgLoss, Whole(period))
                  ELSE Div(Add(Mul(avgLoss, Whole(period - 1)), Whole(loss(data, i))),
                           Whole(period))
       IN <<rsiOf(g, l)>> \o rsiFrom(data, period, i + 1, g, l)

\* L32-87.  The loop of L37-59 fills an array that is not returned.
calculateRSI(data, period) ==
  IF Len(data) = 0 THEN <<>>
  ELSE <<Null>> \o rsiFrom(data, period, 1, Whole(0), Whole(0))

\* ind is one call of an indicator function: its arguments and what it gave
\* back (out; the three arrays of calculateKDJ in kdj), or that it threw.
IdleInd == [pc |-> "idle", fn |-> NULL, data |-> <<>>, period |-> 0,
            out |-> <<>>, kdj |-> [k |-> <<>>, d |-> <<>>, j |-> <<>>],
            steps |-> <<>>, raised |-> FALSE]

CallRSI(data, period) ==
  /\ ind.pc = "idle"
  /\ ind' = [IdleInd EXCEPT !.pc = "done", !.fn = "RSI", !.data = data,
                            !.period = period,
                            !.out = calculateRSI(data, period)]
  /\ UNCHANGED <<dashVars, fetchCall>>

----------------------------------------------------------------------------
(* utils/indicators: calculateEMA, calculateKDJ, calculateSAR.              *)

\* What a call gives back: an array, or a TypeError thrown.
Returns(out) == [raised |-> FALSE, out |-> out]
Throws == [raised |-> TRUE, out |-> <<>>]

RECURSIVE sumClose(_, _)
sumClose(data, n) == IF n = 0 THEN 0 ELSE data[n].close + sumClose(data, n - 1)

\* L8-28: emaArray[i], emaArray[i + 1], ... given ema as left by the
\* iterations before i.
RECURSIVE emaFrom(_, _, _, _)
emaFrom(data, period, i, ema) ==
  LET k == Num(2, period + 1)
      close == Whole(data[i + 1].close)
  IN IF i >= Len(data) THEN <<>>
     ELSE IF i < period - 1
       THEN <<Null>> \o emaFrom(data, period, i + 1,
                                Div(Add(Mul(ema, Whole(i)), close), Whole(i + 1)))
     ELSE IF i = period - 1
       THEN LET sma == Div(Whole(sumClose(data, i + 1)), Whole(period))
            IN <<sma>> \o emaFrom(data, period, i + 1, sma)
     ELSE LET next == Add(Mul(close, k), Mul(ema, Sub(Whole(1), k)))
          IN <<next>> \o emaFrom(data, period, i + 1, next)

\* L3-30.  L6 reads data[0].close before the loop: a TypeError on [].
calculateEMA(data, period) ==
  IF Len(data) = 0 THEN Throws
  ELSE Returns(emaFrom(data, period, 0, Whole(data[1].close)))

\* L106-112: the lowest low and the highest high of data[i - period + 1 .. i]
windowLow(data, period, i) ==
  CHOOSE l \in {data[i + 1 - j].low : j \in 0..(period - 1)} :
    \A j \in 0..(period - 1) : l <= data[i + 1 - j].low
windowHigh(data, period, i) ==
  CHOOSE h \in {data[i + 1 - j].high : j \in 0..(period - 1)} :
    \A j \in 0..(period - 1) : h >= data[i + 1 - j].high

\* Faulty variant: the window without range is divided through.
rsvUnguarded(data, period, i) ==
  LET low == windowLow(data, period, i)
      high == windowHigh(data, period, i)
  IN Mul(Div(Whole(data[i + 1].close - low), Whole(high - low)), Whole(100))

\* L114
rsv(data, period, i) ==
  LET low == windowLow(data, period, i)
      high == windowHigh(data, period, i)
  IN IF high = low THEN Whole(50)
     ELSE Mul(Div(Whole(data[i + 1].close - low), Whole(high - low)), Whole(100))

\* L97-123: the <<K[i], D[i], J[i]>> from i on.
RECURSIVE kdjFrom(_, _, _, _, _)
kdjFrom(data, period, i, kValue, dValue) ==
  IF i >= Len(data) THEN <<>>
  ELSE IF i < period - 1
    THEN <<[k |-> Null, d |-> Null, j |-> Null]>>
           \o kdjFrom(data, period, i + 1, kValue, dValue)
  ELSE LET k1 == Add(Mul(Num(2, 3), kValue), Mul(Num(1, 3), rsv(data, period, i)))
           d1 == Add(Mul(Num(2, 3), dValue), Mul(Num(1, 3), k1))
           j1 == Sub(Mul(Whole(3), k1), Mul(Whole(2), d1))
       IN <<[k |-> k1, d |-> d1, j |-> j1]>>
            \o kdjFrom(data, period, i + 1, k1, d1)

\* L89-126
calculateKDJ(data, period) ==
  LET rows == kdjFrom(data, period, 0, Whole(50), Whole(50))
  IN [k |-> [i \in 1..Len(rows) |-> rows[i].k],
      d |-> [i \in 1..Len(rows) |-> rows[i].d],
      j |-> [i \in 1..Len(rows) |-> rows[i].j]]

\* startAf, maxAf and the least length (L128, L134)
StartAf == Num(2, 100)
MaxAf == Num(2, 10)
SarMinLen == 5

Min(x, y) == IF Less(y, x) THEN y ELSE x

\* Faulty variant: the acceleration factor grows without limit.
nextAfUncapped(af, reversed, moved) ==
  IF reversed THEN StartAf
  ELSE IF moved THEN Add(af, StartAf)
  ELSE af

\* L171, L179, L184-197: af after the tick.
nextAf(af, reversed, moved) ==
  IF reversed THEN StartAf
  ELSE IF moved THEN Min(Add(af, StartAf), MaxAf)
  ELSE af

\* Faulty variant: touching the stop already reverses.
reversesOnTouch(isUptrend, cur, newSar) ==
  IF isUptrend THEN ~Less(newSar, Whole(cur.low))
               ELSE ~Less(Whole(cur.high), newSar)

\* L165-182: the breach test on the clamped newSar.
reverses(isUptrend, cur, newSar) ==
  IF isUptrend THEN Less(Whole(cur.low), newSar)
               ELSE Less(newSar, Whole(cur.high))

\* Faulty variant: only the previous candle bounds the stop.
clampOneBack(isUptrend, newSar, prev1, prev2) ==
  IF isUptrend
    THEN IF Less(Whole(prev1.low), newSar) THEN Whole(prev1.low) ELSE newSar
    ELSE IF Less(newSar, Whole(prev1.high)) THEN Whole(prev1.high) ELSE newSar

\* L152-162: newSar kept out of the range of the two previous candles.
clamp(isUptrend, newSar, prev1, prev2) ==
  IF isUptrend
    THEN LET a == IF Less(Whole(prev1.low), newSar) THEN Whole(prev1.low) ELSE newSar
         IN IF Less(Whole(prev2.low), a) THEN Whole(prev2.low) ELSE a
    ELSE LET a == IF Less(newSar, Whole(prev1.high)) THEN Whole(prev1.high) ELSE newSar
         IN IF Less(a, Whole(prev2.high)) THEN Whole(prev2.high) ELSE a

\* The locals of calculateSAR at the end of an iteration: sar[i], the trend,
\* the extreme point, the acceleration factor, and for the record the
\* clamped newSar and whether the tick reversed.
SarStep(sar, isUptrend, ep, af, clamped, reversed) ==
  [sar |-> sar, isUptrend |-> isUptrend, ep |-> ep, af |-> af,
   clamped |-> clamped, reversed |-> reversed]

\* L144-200: the iterations i, i + 1, ... given sar[i - 1] and the trend
\* state.
RECURSIVE sarFrom(_, _, _, _, _, _)
sarFrom(data, i, prevSar, isUptrend, ep, af) ==
  IF i >= Len(data) THEN <<>>
  ELSE
    LET cur == data[i + 1]
        prev1 == data[i]
        prev2 == IF i > 1 THEN data[i - 1] ELSE prev1
        raw == Add(prevSar, Mul(af, Sub(ep, prevSar)))
        clamped == clamp(isUptrend, raw, prev1, prev2)
        reversed == reverses(isUptrend, cur, clamped)
        up1 == IF reversed THEN ~isUptrend ELSE isUptrend
        newSar == IF reversed THEN ep ELSE clamped
        \* L171, L179, L184-197
        moved == IF up1 THEN Less(ep, Whole(cur.high)) ELSE Less(Whole(cur.low), ep)
        ep1 == IF reversed THEN (IF isUptrend THEN Whole(cur.low) ELSE Whole(cur.high))
               ELSE IF moved THEN (IF up1 THEN Whole(cur.high) ELSE Whole(cur.low))
               ELSE ep
        af1 == nextAf(af, reversed, moved)
    IN <<SarStep(newSar, up1, ep1, af1, clamped, reversed)>>
         \o sarFrom(data, i + 1, newSar, up1, ep1, af1)

\* L137-200: the iterations of a call that has enough candles, the state
\* before the loop first.
sarSteps(data) ==
  IF Len(data) < SarMinLen THEN <<>>
  ELSE LET isUptrend == data[1].close > data[1].open
           ep == IF isUptrend THEN data[1].high ELSE data[1].low
           sar0 == IF isUptrend THEN data[1].low ELSE data[1].high
       IN <<SarStep(Whole(sar0), isUptrend, Whole(ep), StartAf, Whole(sar0), FALSE)>>
            \o sarFrom(data, 1, Whole(sar0), isUptrend, Whole(ep), StartAf)

\* L128-203
calculateSAR(data) ==
  IF Len(data) = 0 THEN <<>>
  ELSE IF Len(data) < SarMinLen THEN [i \in 1..Len(data) |-> Null]
  ELSE [i \in 1..Len(data) |-> sarSteps(data)[i].sar]

CallEMA(data, period) ==
  LET r == calculateEMA(data, period) IN
  /\ ind.pc = "idle"
  /\ ind' = [IdleInd EXCEPT !.pc = "done", !.fn = "EMA", !.data = data,
                            !.period = period,
                            !.out = r.out, !.raised = r.raised]
  /\ UNCHANGED <<dashVars, fetchCall>>

CallKDJ(data, period) ==
  /\ ind.pc = "idle"
  /\ ind' = [IdleInd EXCEPT !.pc = "done", !.fn = "KDJ", !.data = data,
                            !.period = period,
                            !.kdj = calculateKDJ(data, period)]
  /\ UNCHANGED <<dashVars, fetchCall>>

CallSAR(data) ==
  /\ ind.pc = "idle"
  /\ ind' = [IdleInd EXCEPT !.pc = "done", !.fn = "SAR", !.data = data,
                            !.out = calculateSAR(data),
                            !.steps = sarSteps(data)]
  /\ UNCHANGED <<dashVars, fetchCall>>

----------------------------------------------------------------------------
(* App.tsx: loadData.  calls[t] is invocation t: its arguments, its locals, *)
(* its AbortController and the place it is suspended at.                    *)
(*   pc: idle | ticker (L124) | probe (L154) | klines (L176) |              *)
(*       ret_ticker (L134) | ret_probe (L156) | ret_klines (L178) |         *)
(*       caught (L217-223) | done                                           *)
(*   slow: the fast path failed (L126-130); probed: the exchanges whose     *)
(*       probe of L154 was fulfilled                                        *)
(*   klinesError: fetchKlines logged a failure for this invocation (its     *)
(*       console.error)                                                     *)
(*   bg: the background fetchAvailableTickers of L145 is pending            *)
(*   an: getCoinAnalysis of L209 is pending                                 *)

IdleCall == [pc |-> "idle", symbol |-> NULL, interval |-> NULL,
             isNewSearch |-> FALSE, forceExchange |-> NULL,
             targetExchange |-> NULL, currentTicker |-> NoTicker,
             slow |-> FALSE, probed |-> {}, klinesError |-> FALSE,
             aborted |-> FALSE, bg |-> FALSE, an |-> FALSE]

Suspended == {"ticker", "probe", "klines"}

\* The invocation has returned: its locals are gone, its controller and its
\* detached promises remain.
Returned(c, how) ==
  [IdleCall EXCEPT !.pc = how,
                   !.isNewSearch = IF how = "done" THEN FALSE ELSE c.isNewSearch,
                   !.forceExchange = IF how = "done" THEN NULL ELSE c.forceExchange,
                   !.slow = IF how = "caught" THEN c.slow ELSE FALSE,
                   !.probed = IF how = "caught" THEN c.probed ELSE {},
                   !.klinesError = c.klinesError,
                   !.aborted = c.aborted, !.bg = c.bg, !.an = c.an]

\* Faulty variant: the signal is never looked at.
signalAbortedIgnored(t) == FALSE

\* abortController.signal.aborted of invocation t
signalAborted(t) == calls[t].aborted

\* Faulty variant: every rejection is taken for a cancellation.
isAbortErrorAlways(t) == TRUE

\* error.name === 'AbortError': no fetch is given the signal, so no rejection
\* is an AbortError.
isAbortError(t) == FALSE

\* Faulty variant: the subscription of the previous session is left open.
startTeardownSkipped(st) == st

\* L98
startTeardown(st) == unsubscribeKline(st)

\* L100-102
abortPrevious(cs) ==
  IF abortControllerRef # NoId
    THEN [cs EXCEPT ![abortControllerRef].aborted = TRUE]
    ELSE cs

\* L118
TargetOf(forceExchange) ==
  IF forceExchange # NULL THEN forceExchange ELSE DefaultExchange

\* L92-124: the synchronous part of loadData, up to the ticker request.
LoadDataStart(symbol, selectedInterval, isNewSearch, forceExchange) ==
  LET t == nLoads + 1
      normalizedSymbol == toUpperCase(symbol)
  IN /\ nLoads < MaxLoads
     /\ nLoads' = t
     /\ SetStream(startTeardown(StreamState))
     /\ abortControllerRef' = t
     /\ calls' = [abortPrevious(calls) EXCEPT ![t] =
                    [IdleCall EXCEPT !.pc = "ticker",
                                     !.symbol = normalizedSymbol,
                                     !.interval = selectedInterval,
                                     !.isNewSearch = isNewSearch,
                                     !.forceExchange = forceExchange,
                                     !.targetExchange = TargetOf(forceExchange)]]
     /\ IF isNewSearch
          THEN /\ status' = LOADING
               /\ isAnalyzing' = TRUE
               /\ availableExchanges' = <<>>
          ELSE UNCHANGED <<status, isAnalyzing, availableExchanges>>
     /\ UNCHANGED <<displayedSymbol, tickerData, klineData, klineDataRef,
                    nSocks, msgsLeft, svcVars>>

\* Faulty variant: a failure of the requested exchange falls to the probe.
rethrowsNever(c) == FALSE

\* L128: if (forceExchange) throw err
rethrows(c) == c.forceExchange # NULL

\* L217-223
Caught(t, c) ==
  /\ calls' = [calls EXCEPT ![t] = Returned(c, "caught")]
  /\ IF isAbortError(t)
       THEN UNCHANGED <<status, displayedSymbol, isAnalyzing>>
       ELSE /\ status' = ERROR
            /\ displayedSymbol' = NULL
            /\ isAnalyzing' = FALSE

\* L124-150: fetchTicker of the target exchange settles.
TickerResolve(t, ok) ==
  LET c == calls[t] IN
  /\ c.pc = "ticker"
  /\ IF ok
       THEN IF signalAborted(t)
              THEN /\ calls' = [calls EXCEPT ![t] = Returned(c, "ret_ticker")]
                   /\ UNCHANGED <<status, displayedSymbol, isAnalyzing,
                                  tickerData, availableExchanges>>
              ELSE /\ tickerData' = Ticker(c.symbol, c.targetExchange)
                   /\ displayedSymbol' = c.symbol
                   /\ availableExchanges' =
                        IF c.isNewSearch THEN <<c.targetExchange>>
                                         ELSE availableExchanges
                   /\ calls' = [calls EXCEPT ![t] =
                        [c EXCEPT !.pc = "klines",
                                  !.currentTicker = Ticker(c.symbol, c.targetExchange),
                                  !.bg = c.isNewSearch]]
                   /\ UNCHANGED <<status, isAnalyzing>>
       ELSE IF rethrows(c)
              THEN /\ Caught(t, c)
                   /\ UNCHANGED <<tickerData, availableExchanges>>
              ELSE /\ calls' = [calls EXCEPT ![t] =
                        [c EXCEPT !.pc = "probe", !.slow = TRUE]]
                   /\ UNCHANGED <<status, displayedSymbol, isAnalyzing,
                                  tickerData, availableExchanges>>
  /\ UNCHANGED <<interval, klineData, refVars, streamVars, nLoads, nSocks, msgsLeft, svcVars>>

\* L154-172: the slow path's fetchAvailableTickers settles.
ProbeResolve(t, up) ==
  LET c == calls[t]
      availableTickers == fetchAvailableTickers(c.symbol, up)
  IN
  /\ c.pc = "probe"
  /\ IF signalAborted(t)
       THEN /\ calls' = [calls EXCEPT ![t] = Returned(c, "ret_probe")]
            /\ UNCHANGED <<status, displayedSymbol, isAnalyzing,
                           tickerData, availableExchanges>>
       ELSE IF Len(availableTickers) = 0
              THEN /\ Caught(t, [c EXCEPT !.probed = up])
                   /\ UNCHANGED <<tickerData, availableExchanges>>
              ELSE /\ availableExchanges' = ExchangesOf(availableTickers)
                   /\ tickerData' = availableTickers[1]
                   /\ displayedSymbol' = c.symbol
                   /\ calls' = [calls EXCEPT ![t] =
                        [c EXCEPT !.pc = "klines",
                                  !.targetExchange = availableTickers[1].exchange,
                                  !.currentTicker = availableTickers[1],
                                  !.probed = up]]
                   /\ UNCHANGED <<status, isAnalyzing>>
  /\ UNCHANGED <<interval, klineData, refVars, streamVars, nLoads, nSocks, msgsLeft, svcVars>>

\* Faulty variant: candles and stream are requested from the default exchange.
requestOfDefault(c) == <<c.symbol, DefaultExchange, c.interval>>

\* L176, L186-205: normalizedSymbol, targetExchange and selectedInterval, the
\* arguments of both fetchKlines and subscribeToKline.
requestOf(c) == <<c.symbol, c.targetExchange, c.interval>>

\* L176-215: fetchKlines settles, outcome being what its fetchWithFallback
\* settled with; the series is replaced and the stream subscribed.
KlinesResolve(t, outcome) ==
  LET c == calls[t]
      req == requestOf(c)
      r == fetchKlines(req[2], outcome)
      klines == [i \in 1..Len(r.candles) |-> Candle(r.candles[i].time, 0, req)]
      c1 == [c EXCEPT !.klinesError = r.logged]
  IN
  /\ c.pc = "klines"
  /\ IF r.kind = "error"
       THEN /\ Caught(t, c)
            /\ UNCHANGED <<klineData, klineDataRef, streamVars, nSocks, msgsLeft>>
       ELSE IF signalAborted(t)
       THEN /\ calls' = [calls EXCEPT ![t] = Returned(c1, "ret_klines")]
            /\ UNCHANGED <<klineData, klineDataRef, status, streamVars, nSocks,
                           msgsLeft, displayedSymbol, isAnalyzing>>
       ELSE /\ klineData' = klines
            /\ klineDataRef' = klines
            /\ status' = SUCCESS
            /\ nSocks' = nSocks + 1
            /\ msgsLeft' = MaxMsgs
            /\ SetStream(subscribeToKline(StreamState, nSocks + 1, req[1],
                                          req[3], req[2]))
            /\ calls' = [calls EXCEPT ![t] =
                 [Returned(c1, "done") EXCEPT
                    !.an = c.isNewSearch /\ c.currentTicker # NoTicker]]
            /\ UNCHANGED <<displayedSymbol, isAnalyzing>>
  /\ UNCHANGED <<interval, tickerData, availableExchanges,
                 abortControllerRef, nLoads, svcVars>>

\* L145-149: the background fetchAvailableTickers settles.
BackgroundResolve(t, up) ==
  LET tickers == fetchAvailableTickers(NULL, up) IN
  /\ calls[t].bg
  /\ calls' = [calls EXCEPT ![t].bg = FALSE]
  /\ availableExchanges' =
       IF ~signalAborted(t) /\ Len(tickers) > 0
         THEN ExchangesOf(tickers) ELSE availableExchanges
  /\ UNCHANGED <<status, displayedSymbol, interval, tickerData, klineData,
                 isAnalyzing, refVars, streamVars, nLoads, nSocks, msgsLeft, svcVars>>

\* L209-214: getCoinAnalysis settles (it catches its own failures).
AnalysisResolve(t) ==
  /\ calls[t].an
  /\ calls' = [calls EXCEPT ![t].an = FALSE]
  /\ isAnalyzing' = IF ~signalAborted(t) THEN FALSE ELSE isAnalyzing
  /\ UNCHANGED <<status, displayedSymbol, interval, tickerData,
                 availableExchanges, klineData, refVars, streamVars,
                 nLoads, nSocks, msgsLeft, svcVars>>

----------------------------------------------------------------------------
(* App.tsx: what is rendered, and the handlers behind it.                   *)

\* L288: the detail view (InfoCard and CryptoChart) is rendered.
ViewRendered ==
  /\ \/ status = SUCCESS
     \/ status = LOADING /\ displayedSymbol # NULL /\ Len(klineData) > 0
  /\ displayedSymbol # NULL
  /\ tickerData # NoTicker

\* CryptoChart renders its timeframe bar only over a non-empty series.
TimeframeBarRendered == ViewRendered /\ Len(klineData) > 0

\* InfoCard renders one button per available exchange.
ExchangeButtons == IF ViewRendered THEN Range(availableExchanges) ELSE {}

\* L60-71: the trend the effect sets from a non-empty series and the stops
\* calculateSAR returned for it; NULL where it sets none.
trendEffect(data, sar) ==
  IF Len(data) > 0 /\ Len(sar) > 0 /\ sar[Len(sar)] # Null
    THEN IF Less(sar[Len(sar)], Whole(data[Len(data)].close)) THEN "up" ELSE "down"
    ELSE NULL

\* L226-230
handleSearch(term) ==
  /\ interval' = DefaultInterval
  /\ LoadDataStart(term, DefaultInterval, TRUE, NULL)

\* L232-237
handleIntervalChange(newInterval) ==
  /\ TimeframeBarRendered
  /\ interval' = newInterval
  /\ IF displayedSymbol # NULL
       THEN LoadDataStart(displayedSymbol, newInterval, FALSE, NULL)
       ELSE UNCHANGED <<status, displayedSymbol, tickerData, availableExchanges,
                        klineData, isAnalyzing, refVars, calls, streamVars,
                        nLoads, nSocks, msgsLeft, svcVars>>

\* L239-243
handleExchangeSwitch(newExchange) ==
  /\ newExchange \in ExchangeButtons
  /\ IF displayedSymbol # NULL
       THEN LoadDataStart(displayedSymbol, interval, FALSE, newExchange)
       ELSE UNCHANGED <<status, displayedSymbol, tickerData, availableExchanges,
                        klineData, isAnalyzing, refVars, calls, streamVars,
                        nLoads, nSocks, msgsLeft, svcVars>>
  /\ UNCHANGED interval

\* L245-251
handleLogoClick ==
  /\ SetStream(unsubscribeKline(StreamState))
  /\ displayedSymbol' = NULL
  /\ status' = IDLE
  /\ tickerData' = NoTicker
  /\ UNCHANGED <<interval, availableExchanges, klineData, isAnalyzing,
                 refVars, calls, nLoads, nSocks, msgsLeft, svcVars>>

----------------------------------------------------------------------------
(* The browser's events on the sockets and timers of binanceStream.ts.      *)

\* The connection of socket s is established: ws.onopen runs.
SocketOpen(s) ==
  /\ sockets[s].state = "CONNECTING"
  /\ SetStream(onopen(StreamState, s))
  /\ UNCHANGED <<reactVars, refVars, calls, nLoads, nSocks, msgsLeft, svcVars>>

\* The connection of socket s fails: ws.onerror logs, the browser closes the
\* socket, the module keeps its handles.
SocketError(s) ==
  /\ s \in LiveSockets
  /\ SetStream(onerror(connectionFails(StreamState, s), s))
  /\ UNCHANGED <<reactVars, refVars, calls, nLoads, nSocks, msgsLeft, svcVars>>

\* The tick of an armed keep-alive timer: a ping goes out if the current
\* socket is open, nothing else happens.
TimerTick(i) ==
  /\ i \in ArmedTimers
  /\ SetStream(tick(StreamState, i))
  /\ UNCHANGED <<reactVars, refVars, calls, nLoads, nSocks, msgsLeft, svcVars>>

\* A frame as onmessage receives it.  text: "json" if event.data parses as
\* JSON, else the raw text; tag: the discriminator of the exchange's candle
\* update is there (e = kline; topic kline...; d and c spot@public.kline...;
\* event = update); data: the candle payload (k; data; d.k; result; data) is
\* "absent", an "empty" list, or one "candle"; t: its time on the wire.
Frame(text, tag, data, t) == [text |-> text, tag |-> tag, data |-> data, t |-> t]

Dropped == [kind |-> "dropped", time |-> 0]
Raises == [kind |-> "throws", time |-> 0]
Callback(time) == [kind |-> "callback", time |-> time]

\* Faulty variant: the Gate time is passed on in seconds.
streamTimeRaw(exchange, t) == t

\* The time of the candle handed to the callback (L31, L69, L111, L147,
\* L188).
streamTime(exchange, t) == IF exchange = "Gate" THEN t * 1000 ELSE t

\* Faulty variant: every frame that parses is handed to the callback.
onmessageUnfiltered(exchange, frame) ==
  IF frame.text # "json" THEN Raises
  ELSE Callback(streamTime(exchange, frame.t))

\* ws.onmessage of the exchange's branch, on the frames of its wire format
\* (k, d.k and result are objects, the two data fields are lists): what
\* becomes of the frame.
onmessage(exchange, frame) ==
  IF exchange = "OKX" /\ frame.text = "pong" THEN Dropped
  ELSE IF frame.text # "json" THEN Raises
  ELSE CASE exchange = "Binance" ->
              IF ~frame.tag THEN Dropped
              ELSE IF frame.data = "absent" THEN Raises
              ELSE Callback(streamTime(exchange, frame.t))
         [] exchange = "Bybit" ->
              IF ~frame.tag \/ frame.data = "absent" THEN Dropped
              ELSE IF frame.data = "empty" THEN Raises
              ELSE Callback(streamTime(exchange, frame.t))
         [] exchange = "MEXC" ->
              IF ~frame.tag THEN Dropped
              ELSE IF frame.data = "absent" THEN Raises
              ELSE Callback(streamTime(exchange, frame.t))
         [] exchange = "Gate" ->
              IF ~frame.tag \/ frame.data = "absent" THEN Dropped
              ELSE Callback(streamTime(exchange, frame.t))
         [] exchange = "OKX" ->
              IF frame.data \in {"absent", "empty"} THEN Dropped
              ELSE Callback(streamTime(exchange, frame.t))

\* The times a stream may report: the bucket of the last stored candle, the
\* one before and the one after, in the unit of the exchange's wire format.
StreamTimes(exchange) ==
  LET base == IF Len(klineDataRef) > 0 THEN Last(klineDataRef).time ELSE SecondMs
      unit == IF exchange = "Gate" THEN 1 ELSE SecondMs
      b == (base \div SecondMs) * unit
  IN {b - unit, b, b + unit} \ {0}

\* The frames an exchange's stream may deliver: candle updates, an
\* acknowledgement, an update of another channel, a candle update without
\* payload, one with an empty list where the payload is a list, and the raw
\* pong of OKX.
InboundFrames(exchange) ==
  LET times == StreamTimes(exchange)
      t0 == CHOOSE t \in times : \A u \in times : t <= u
  IN {Frame("json", TRUE, "candle", t) : t \in times}
       \cup {Frame("json", FALSE, "absent", 0)}
       \cup {Frame("json", TRUE, "absent", 0)}
       \cup (IF exchange = "OKX" THEN {Frame("pong", FALSE, "absent", 0)}
             ELSE {Frame("json", FALSE, "candle", t0)})
       \cup (IF exchange \in {"Bybit", "OKX"} THEN {Frame("json", TRUE, "empty", 0)}
             ELSE {})

\* A frame arrives on socket s.
StreamMessage(s, frame) ==
  LET r == onmessage(sockets[s].exchange, frame)
      newCandle == Candle(r.time, 1, <<sockets[s].symbol, sockets[s].exchange,
                                       sockets[s].interval>>)
      updatedData == streamCallback(klineDataRef, newCandle)
  IN
  /\ sockets[s].state = "OPEN"
  /\ IF r.kind = "callback"
       THEN /\ msgsLeft > 0
            /\ msgsLeft' = msgsLeft - 1
            /\ klineDataRef' = updatedData
            /\ klineData' = updatedData
       ELSE UNCHANGED <<klineDataRef, klineData, msgsLeft>>
  /\ UNCHANGED <<status, displayedSymbol, interval, tickerData,
                 availableExchanges, isAnalyzing, abortControllerRef, calls,
                 streamVars, nLoads, nSocks, svcVars>>

----------------------------------------------------------------------------
(* The dashboard: user, network and stream interleaved.  A candle request   *)
(* ends here with a batch, possibly empty, which is also what every failure *)
(* of it leaves the dashboard with; the failures are in SearchSpec.         *)

Init ==
  /\ status = IDLE
  /\ displayedSymbol = NULL
  /\ interval = DefaultInterval
  /\ tickerData = NoTicker
  /\ availableExchanges = <<>>
  /\ klineData = <<>>
  /\ isAnalyzing = FALSE
  /\ klineDataRef = <<>>
  /\ abortControllerRef = NoId
  /\ calls = [t \in CallIds |-> IdleCall]
  /\ ws = NoId
  /\ pingInterval = NoId
  /\ sockets = [s \in SockIds |-> NoSocket]
  /\ timers = [i \in SockIds |-> 0]
  /\ nLoads = 0
  /\ nSocks = 0
  /\ msgsLeft = 0
  /\ fetchCall = IdleFetch
  /\ ind = IdleInd

Next ==
  \/ \E term \in Terms : handleSearch(term)
  \/ \E i \in Intervals : handleIntervalChange(i)
  \/ \E e \in Exchanges : handleExchangeSwitch(e)
  \/ handleLogoClick
  \/ \E t \in CallIds, ok \in BOOLEAN : TickerResolve(t, ok)
  \/ \E t \in CallIds, up \in SUBSET Listing : ProbeResolve(t, up)
  \/ \E t \in CallIds :
       /\ calls[t].pc = "klines"
       /\ \E outcome \in BatchOutcomes(calls[t].targetExchange) :
            KlinesResolve(t, outcome)
  \/ \E t \in CallIds, up \in SUBSET Listing : BackgroundResolve(t, up)
  \/ \E t \in CallIds : AnalysisResolve(t)
  \/ \E s \in SockIds : SocketOpen(s)
  \/ \E s \in SockIds : SocketError(s)
  \/ \E i \in SockIds : TimerTick(i)
  \/ \E s \in SockIds :
       /\ sockets[s].state = "OPEN"
       /\ \E frame \in InboundFrames(sockets[s].exchange) : StreamMessage(s, frame)

Spec == Init /\ [][Next]_vars

\* A pending request of an invocation settles: fetchTicker, either
\* fetchAvailableTickers, fetchKlines or getCoinAnalysis.
Settles ==
  \/ \E t \in CallIds, ok \in BOOLEAN : TickerResolve(t, ok)
  \/ \E t \in CallIds, up \in SUBSET Listing : ProbeResolve(t, up)
  \/ \E t \in CallIds :
       /\ calls[t].pc = "klines"
       /\ \E outcome \in BatchOutcomes(calls[t].targetExchange) :
            KlinesResolve(t, outcome)
  \/ \E t \in CallIds, up \in SUBSET Listing : BackgroundResolve(t, up)
  \/ \E t \in CallIds : AnalysisResolve(t)

\* The user's operations and the requests they start, the events of the
\* stream left aside, when every request eventually settles: the promises
\* of the finitely many invocations are settled by the network or by its
\* timeouts.
FairNext ==
  \/ \E term \in Terms : handleSearch(term)
  \/ \E i \in Intervals : handleIntervalChange(i)
  \/ \E e \in Exchanges : handleExchangeSwitch(e)
  \/ handleLogoClick
  \/ Settles

FairSpec == Init /\ [][FairNext]_vars /\ WF_vars(Settles)

----------------------------------------------------------------------------
(* One search and the interval changes and exchange switches that follow    *)
(* it, every fetchAvailableTickers finding the symbol on all the exchanges  *)
(* that list it, and every request eventually settling.                     *)

SessionSettles ==
  \/ \E t \in CallIds, ok \in BOOLEAN : TickerResolve(t, ok)
  \/ \E t \in CallIds : ProbeResolve(t, Listing)
  \/ \E t \in CallIds :
       /\ calls[t].pc = "klines"
       /\ \E outcome \in BatchOutcomes(calls[t].targetExchange) :
            KlinesResolve(t, outcome)
  \/ \E t \in CallIds : BackgroundResolve(t, Listing)
  \/ \E t \in CallIds : AnalysisResolve(t)

SessionNext ==
  \/ \E term \in Terms : nLoads = 0 /\ handleSearch(term)
  \/ \E i \in Intervals : handleIntervalChange(i)
  \/ \E e \in Exchanges : handleExchangeSwitch(e)
  \/ SessionSettles

SessionSpec == Init /\ [][SessionNext]_vars /\ WF_vars(SessionSettles)

----------------------------------------------------------------------------
(* One search against all five exchanges, each of which may answer or fail. *)

SearchNext ==
  \/ \E term \in Terms : nLoads = 0 /\ handleSearch(term)
  \/ handleLogoClick
  \/ \E t \in CallIds, ok \in BOOLEAN : TickerResolve(t, ok)
  \/ \E t \in CallIds, up \in SUBSET Exchanges : ProbeResolve(t, up)
  \/ \E t \in CallIds :
       /\ calls[t].pc = "klines"
       /\ \E outcome \in KlineOutcomes(calls[t].targetExchange) :
            KlinesResolve(t, outcome)
  \/ \E t \in CallIds, up \in SUBSET Exchanges : BackgroundResolve(t, up)
  \/ \E t \in CallIds : AnalysisResolve(t)
  \/ \E s \in SockIds : SocketOpen(s)
  \/ \E s \in SockIds :
       /\ sockets[s].state = "OPEN"
       /\ \E frame \in InboundFrames(sockets[s].exchange) : StreamMessage(s, frame)

SearchSpec == Init /\ [][SearchNext]_vars

----------------------------------------------------------------------------
(* The stream manager on its own: subscribeToKline and unsubscribeKline     *)
(* called in any order with any arguments, between the browser's events.    *)

CallSubscribe(symbol, intv, exchange) ==
  /\ nSocks < MaxLoads
  /\ nSocks' = nSocks + 1
  /\ msgsLeft' = MaxMsgs
  /\ SetStream(subscribeToKline(StreamState, nSocks + 1, symbol, intv, exchange))
  /\ UNCHANGED <<reactVars, refVars, calls, nLoads, svcVars>>

CallUnsubscribe ==
  /\ SetStream(unsubscribeKline(StreamState))
  /\ UNCHANGED <<reactVars, refVars, calls, nLoads, nSocks, msgsLeft, svcVars>>

StreamNext ==
  \/ \E i \in SelectorIntervals, e \in Exchanges : CallSubscribe("BTC", i, e)
  \/ CallUnsubscribe
  \/ \E s \in SockIds : SocketOpen(s)
  \/ \E s \in SockIds : SocketError(s)
  \/ \E i \in SockIds : TimerTick(i)
  \/ \E s \in SockIds :
       /\ sockets[s].state = "OPEN"
       /\ \E frame \in InboundFrames(sockets[s].exchange) : StreamMessage(s, frame)

StreamSpec == Init /\ [][StreamNext]_vars

----------------------------------------------------------------------------
(* The candle series on its own: a session that has loaded its history and  *)
(* whose socket is open, and the candle frames that follow.                 *)

SeriesLens == {1, 2, Limit - 1, Limit}

SeriesInit ==
  \E n \in SeriesLens :
    /\ status = SUCCESS
    /\ displayedSymbol = "BTC"
    /\ interval = DefaultInterval
    /\ tickerData = Ticker("BTC", DefaultExchange)
    /\ availableExchanges = <<DefaultExchange>>
    /\ klineData = Batch(n, <<"BTC", DefaultExchange, DefaultInterval>>)
    /\ isAnalyzing = FALSE
    /\ klineDataRef = klineData
    /\ abortControllerRef = 1
    /\ calls = [t \in CallIds |-> IF t = 1 THEN [IdleCall EXCEPT !.pc = "done"]
                                           ELSE IdleCall]
    /\ ws = 1
    /\ pingInterval = NoId
    /\ sockets = [s \in SockIds |->
                    IF s = 1 THEN [state |-> "OPEN", exchange |-> DefaultExchange,
                                   symbol |-> "BTC", interval |-> DefaultInterval,
                                   token |-> DefaultInterval, sent |-> {}]
                             ELSE NoSocket]
    /\ timers = [i \in SockIds |-> 0]
    /\ nLoads = 1
    /\ nSocks = 1
    /\ msgsLeft = MaxSeriesMsgs
    /\ fetchCall = IdleFetch
    /\ ind = IdleInd

SeriesNext ==
  \E s \in SockIds :
    /\ sockets[s].state = "OPEN"
    /\ \E frame \in InboundFrames(sockets[s].exchange) : StreamMessage(s, frame)

SeriesSpec == SeriesInit /\ [][SeriesNext]_vars

----------------------------------------------------------------------------
(* A ticker fetcher on its own: any exchange, and every way the direct      *)
(* request and the relay's can settle.                                      *)

DirectResponses(exchange, symbol) ==
  {Response("error", FALSE, FALSE, NoValue),
   Response("ok", FALSE, TRUE, ErrorBody(exchange)),
   Response("ok", TRUE, FALSE, NoValue)}
    \cup {Response("ok", TRUE, TRUE, b) : b \in Bodies(exchange, symbol)}

RelayResponses(exchange, symbol) ==
  {Envelope("error", FALSE, FALSE, EmptyText),
   Envelope("ok", FALSE, TRUE, EmptyText),
   Envelope("ok", TRUE, FALSE, EmptyText),
   Envelope("ok", TRUE, TRUE, EmptyText),
   Envelope("ok", TRUE, TRUE, AbsentText),
   Envelope("ok", TRUE, TRUE, RawText)}
    \cup {Envelope("ok", TRUE, TRUE, JsonText(b)) : b \in Bodies(exchange, symbol)}

FetchNext ==
  \/ \E term \in Terms, e \in Exchanges : FetchStart(term, e)
  \/ /\ fetchCall.pc = "direct"
     /\ \E res \in DirectResponses(fetchCall.exchange, fetchCall.symbol) :
          DirectSettles(res)
  \/ /\ fetchCall.pc = "relay"
     /\ \E res \in RelayResponses(fetchCall.exchange, fetchCall.symbol) :
          RelaySettles(res)

FetchSpec == Init /\ [][FetchNext]_vars

----------------------------------------------------------------------------
(* The indicator functions on their own, over every short candle sequence   *)
(* with small integer prices.                                               *)

Closes == 1..MaxClose
Periods == {2, 3}

\* Candles of which only the close matters.
FlatKlines(n) == [1..n -> {Kline(c, c, c, c) : c \in Closes}]

\* Candles whose body is their whole range of one price step, going up or
\* going down; with the flat ones, the candles of the ranged inputs.
StepKlines == {Kline(l, l + 1, l, l + 1) : l \in 1..(MaxClose - 1)}
                \cup {Kline(l + 1, l + 1, l, l) : l \in 1..(MaxClose - 1)}
RangedKlines(n) == [1..n -> StepKlines \cup {Kline(c, c, c, c) : c \in Closes}]

\* Widening ranges: every candle takes the high one price step up (1), or
\* the low one step down (-1), or stays within the range so far (0); a run
\* of rises comes first.  The stop of such a series is always clamped, so
\* its values stay whole numbers however long the series.
Widening(moves) ==
  LET hi[i \in 0..Len(moves)] ==
        IF i = 0 THEN MaxWalk + 1
        ELSE hi[i - 1] + (IF moves[i] = 1 THEN 1 ELSE 0)
      lo[i \in 0..Len(moves)] ==
        IF i = 0 THEN MaxWalk + 1
        ELSE lo[i - 1] - (IF moves[i] = -1 THEN 1 ELSE 0)
  IN [i \in 1..Len(moves) |->
        IF moves[i] = 1 THEN Kline(lo[i], hi[i], lo[i], hi[i])
        ELSE IF moves[i] = -1 THEN Kline(hi[i], hi[i], lo[i], lo[i])
        ELSE Kline(lo[i], hi[i], lo[i], lo[i])]
Walks ==
  {Widening([i \in 1..k |-> 1] \o moves) :
     k \in 0..(MaxWalk - MaxTurns),
     moves \in UNION {[1..m -> {1, 0, -1}] : m \in (MaxTurns - 1)..MaxTurns}}

IndNext ==
  \/ /\ ind.pc = "idle"
     /\ \E n \in 0..MaxCandles, p \in Periods : \E data \in FlatKlines(n) :
          CallEMA(data, p)
  \/ /\ ind.pc = "idle"
     /\ \E n \in 0..MaxCandles, p \in Periods : \E data \in FlatKlines(n) :
          CallRSI(data, p)
  \/ /\ ind.pc = "idle"
     /\ \E n \in 0..MaxCandles, p \in Periods : \E data \in RangedKlines(n) :
          CallKDJ(data, p)
  \/ /\ ind.pc = "idle"
     /\ \E n \in 0..MaxCandles : \E data \in [1..n -> StepKlines] :
          CallSAR(data)
  \/ /\ ind.pc = "idle"
     /\ \E data \in Walks : CallSAR(data)

IndSpec == Init /\ [][IndNext]_vars

----------------------------------------------------------------------------
(* Properties.                                                              *)

appVars == <<reactVars, refVars, streamVars>>

\* Invocation t is resumed in this step: one of its awaited fetches settles.
Resumes(t) == calls[t].pc \in Suspended /\ calls'[t].pc # calls[t].pc

IsIntervalChange(c) == ~c.isNewSearch /\ c.forceExchange = NULL

\* C1: an interval change A that was superseded by a later loadData B writes
\* nothing when one of its fetches settles, before or after B's: the series,
\* the status and the stream subscription stay as they are.
C1_SupersededIntervalChangeWritesNothing ==
  [][\A t \in CallIds :
       (Resumes(t) /\ calls[t].aborted /\ IsIntervalChange(calls[t]))
         => UNCHANGED appVars]_vars

\* An interval change returned at the check after its candle fetch, and a
\* later invocation has loaded its series and holds the subscription.
C1_Witness ==
  \E a, b \in CallIds :
    /\ a < b
    /\ calls[a].pc = "ret_klines" /\ IsIntervalChange(calls[a])
    /\ calls[b].pc = "done" /\ abortControllerRef = b
    /\ status = SUCCESS /\ ws # NoId /\ Len(klineData) > 0

\* C2: a ticker-fetch failure of a superseded invocation (a forced exchange
\* included) is dropped: it changes no session state.
C2_SupersededFailureDropped ==
  [][\A t \in CallIds :
       (/\ calls[t].pc = "ticker"
        /\ calls[t].aborted
        /\ calls'[t].pc \in {"probe", "caught"})
         => UNCHANGED appVars]_vars

\* C3: at most one socket is not closed and at most one keep-alive timer is
\* armed; a subscribe leaves no socket but the new one live and no timer
\* armed.
C3_AtMostOneLiveSubscription ==
  /\ [](Cardinality(LiveSockets) <= 1 /\ Cardinality(ArmedTimers) <= 1)
  /\ [][nSocks' # nSocks =>
          /\ LiveSockets' = {ws'}
          /\ ArmedTimers' = {}
          /\ pingInterval' = NoId]_vars

\* A second subscription is open with its timer armed, the first one closed
\* and its timer cleared.
C3_Witness ==
  /\ nSocks = 2 /\ ws = 2
  /\ sockets[2].state = "OPEN" /\ pingInterval = 2 /\ timers[2] > 0
  /\ sockets[1].state = "CLOSED" /\ timers[1] = 0

\* C4: a non-empty series shown with a symbol was fetched or streamed for
\* that symbol, the active exchange and the selected interval.
C4_SeriesBelongsToSession ==
  (displayedSymbol # NULL /\ Len(klineData) > 0) =>
    \A i \in 1..Len(klineData) :
      klineData[i].src = <<displayedSymbol, tickerData.exchange, interval>>

\* C5: every step that starts a loadData leaves no socket live and no timer
\* armed, has aborted the controller that was current, and holds a fresh
\* controller that is not aborted, with the first request just issued.
C5_EntryTearsDownAndMints ==
  [][nLoads' # nLoads =>
       /\ ws' = NoId /\ pingInterval' = NoId
       /\ LiveSockets' = {} /\ ArmedTimers' = {}
       /\ abortControllerRef # NoId => calls'[abortControllerRef].aborted
       /\ abortControllerRef' # abortControllerRef
       /\ calls[abortControllerRef'].pc = "idle"
       /\ ~calls'[abortControllerRef'].aborted
       /\ calls'[abortControllerRef'].pc = "ticker"]_vars

\* A loadData has just started over a session that had streamed: its request
\* is out, the earlier socket is closed, the earlier controller aborted.
C5_Witness ==
  \E t \in CallIds :
    /\ t > 1 /\ abortControllerRef = t /\ calls[t].pc = "ticker"
    /\ calls[t - 1].aborted
    /\ sockets[1].state = "CLOSED" /\ ws = NoId
    /\ \E i \in 1..Len(klineData) : klineData[i].close = 1

\* C6: the series never holds more than cap (500) candles.
C6_LengthNeverExceedsCap == Len(klineData) <= Limit

\* C7: a candle frame on a non-empty series either replaces the last candle
\* (same time: the rest unchanged) or becomes the new last candle after all
\* the previous ones, of which at most the oldest is dropped.
C7_MergeOneReplacesOrAppends ==
  [][(msgsLeft' = msgsLeft - 1 /\ Len(klineDataRef) > 0) =>
       LET old == klineDataRef
           new == klineDataRef'
           c == Last(new)
       IN /\ Len(new) > 0
          /\ klineData' = new
          /\ IF c.time = Last(old).time
               THEN new = Append(Front(old), c)
               ELSE new \in {Append(old, c), Append(Tail(old), c)}]_vars

\* After a full batch: one candle appended, one appended with the oldest
\* evicted, one replaced.
C7_Witness ==
  /\ msgsLeft = MaxSeriesMsgs - 3
  /\ Len(klineData) = Limit + 1
  /\ klineData[1].time = 2 * SecondMs
  /\ Last(klineData).time = (Limit + 2) * SecondMs
  /\ \A i \in 1..Limit : klineData[i].time < klineData[i + 1].time

\* C8: the times of the series are strictly increasing.
C8_TimesStrictlyIncreasing ==
  \A i \in 1..(Len(klineData) - 1) : klineData[i].time < klineData[i + 1].time

\* C9: an interval change or an exchange switch never runs the
\* multi-exchange probe, and an interval change requests the exchange that
\* was active before it.
C9_IntervalChangeKeepsExchange ==
  [][/\ \A t \in CallIds : calls'[t].pc = "probe" => calls'[t].isNewSearch
     /\ (nLoads' # nLoads /\ IsIntervalChange(calls'[nLoads']))
          => calls'[nLoads'].targetExchange = tickerData.exchange]_vars

FirstByPriority(up) ==
  Priority[CHOOSE i \in 1..Len(Priority) :
             Priority[i] \in up /\ \A j \in 1..(i - 1) : Priority[j] \notin up]

\* C10: once the slow path has chosen, the published availability set is
\* exactly the set of exchanges whose probe succeeded, and the chosen
\* exchange is the first of them in the order Binance, Bybit, MEXC, Gate, OKX;
\* the probes that failed cost the others nothing: the slow path ends in the
\* catch block only if no probe succeeded.
C10_SlowPathSelectsFirstSuccess ==
  \A t \in CallIds :
    /\ (calls[t].pc = "caught" /\ calls[t].slow) => calls[t].probed = {}
    /\ (calls[t].pc = "klines" /\ calls[t].slow) =>
         /\ calls[t].probed # {}
         /\ Range(availableExchanges) = calls[t].probed
         /\ Len(availableExchanges) = Cardinality(calls[t].probed)
         /\ calls[t].targetExchange = FirstByPriority(calls[t].probed)
         /\ calls[t].currentTicker.exchange = calls[t].targetExchange
         /\ tickerData \in {NoTicker, calls[t].currentTicker}

\* Binance failed, MEXC and OKX answered: MEXC is chosen.
C10_Witness ==
  \E t \in CallIds :
    /\ calls[t].pc = "klines" /\ calls[t].slow
    /\ calls[t].probed = {"MEXC", "OKX"}
    /\ tickerData.exchange = "MEXC"
    /\ availableExchanges = <<"MEXC", "OKX">>

\* C11: a search that is not superseded ends in ERROR only from the
\* multi-exchange probe, and only when none of the five exchanges returned a
\* ticker; a failure of the first (Binance) request alone does not end it.
C11_SearchFailsOnlyIfAllFail ==
  [][\A t \in CallIds :
       (/\ Resumes(t)
        /\ calls[t].isNewSearch /\ calls[t].forceExchange = NULL
        /\ ~calls[t].aborted
        /\ status' = ERROR)
         => (calls[t].pc = "probe" /\ calls'[t].probed = {})]_vars

\* Binance failed twice and only OKX answered: the search ended in SUCCESS
\* on OKX.
C11_Witness ==
  /\ status = SUCCESS
  /\ calls[1].pc = "done" /\ ~calls[1].aborted
  /\ tickerData.exchange = "OKX"
  /\ availableExchanges = <<"OKX">>

\* C12: a loadData with a requested exchange never runs the probe and never
\* targets another exchange; when its ticker request fails it goes straight
\* to the catch block: status ERROR, no ticker or availability written, no
\* series written, no socket created.
C12_ForcedFailureSurfaced ==
  [][\A t \in CallIds :
       (Resumes(t) /\ calls[t].forceExchange # NULL) =>
         /\ calls'[t].pc # "probe"
         /\ calls[t].pc = "ticker" =>
              calls'[t].pc \in {"klines", "ret_ticker", "caught"}
         /\ calls'[t].pc = "klines" =>
              calls'[t].targetExchange = calls[t].forceExchange
         /\ calls'[t].pc = "caught" =>
              /\ calls[t].pc = "ticker"
              /\ status' = ERROR
              /\ UNCHANGED <<tickerData, availableExchanges, klineData,
                             klineDataRef, streamVars, nSocks>>]_vars

\* An exchange switch failed: the session is in ERROR, the only socket ever
\* created is the one of the search, and it is closed.
C12_Witness ==
  \E t \in CallIds :
    /\ calls[t].pc = "caught" /\ calls[t].forceExchange = "Bybit"
    /\ ~calls[t].aborted /\ abortControllerRef = t
    /\ status = ERROR /\ ws = NoId /\ nSocks = 1
    /\ tickerData.exchange = "Binance"

decodeChar(c) ==
  CASE c = "%3A" -> ":"
    [] c = "%2F" -> "/"
    [] c = "%3F" -> "?"
    [] c = "%3D" -> "="
    [] c = "%26" -> "&"
    [] OTHER -> c

decodeURIComponent(s) == [i \in 1..Len(s) |-> decodeChar(s[i])]

\* The direct request of the call got a response with a success status.
DirectSucceeded == fetchCall.direct.net = "ok" /\ fetchCall.direct.ok
DirectSettled == fetchCall.direct.net # "none"
RelaySettled == fetchCall.relay.net # "none"

\* The first request is the direct one, the second (if any) goes to the
\* relay with the encoded URL, there is no third; a direct request that fails
\* by transport or by status is followed by the relay's; a call that has not
\* asked the relay returns the direct body; a relay that fails by transport
\* or by status fails the call.
DirectThenRelayOnce ==
  /\ fetchCall.pc # "idle" =>
       /\ Len(fetchCall.log) \in {1, 2}
       /\ fetchCall.log[1] = fetchCall.url
  /\ Len(fetchCall.log) = 2 =>
       LET target == SubSeq(fetchCall.log[2], Len(PROXY_URL) + 1,
                            Len(fetchCall.log[2]))
       IN /\ SubSeq(fetchCall.log[2], 1, Len(PROXY_URL)) = PROXY_URL
          /\ \A i \in 1..Len(target) : target[i] \notin Reserved
          /\ decodeURIComponent(target) = fetchCall.url
          /\ DirectSettled
  /\ (DirectSettled /\ ~DirectSucceeded) => Len(fetchCall.log) = 2
  /\ (fetchCall.pc = "done" /\ Len(fetchCall.log) = 1) =>
       fetchCall.data = Value(fetchCall.direct.body)
  /\ (RelaySettled /\ ~(fetchCall.relay.net = "ok" /\ fetchCall.relay.ok)) =>
       (fetchCall.pc = "done" /\ fetchCall.data.kind = "error")

\* C13 as stated: fetchWithFallback asks the direct URL first and the relay
\* at most once after it, with the encoded URL, and the relay is not asked
\* when the direct request got a response with a success status.
C13_RelayOnlyAfterFailedStatusOrTransport ==
  /\ DirectThenRelayOnce
  /\ (DirectSettled /\ DirectSucceeded) => Len(fetchCall.log) = 1

\* C13, amended: as above, but the relay is not asked only when the direct
\* response has a success status and a body that parses as JSON; a success
\* status with a body that does not parse sends the call to the relay too.
C13_RelayAfterAnyDirectFailure ==
  /\ DirectThenRelayOnce
  /\ (DirectSettled /\ DirectSucceeded /\ fetchCall.direct.json) =>
       Len(fetchCall.log) = 1
  /\ (DirectSettled /\ DirectSucceeded /\ ~fetchCall.direct.json) =>
       Len(fetchCall.log) = 2

\* The direct response was a 200 that is not JSON; the relay was asked with
\* the encoded URL and its envelope gave the value.
C13_Witness ==
  /\ fetchCall.pc = "done" /\ fetchCall.exchange = "Bybit"
  /\ DirectSucceeded /\ ~fetchCall.direct.json
  /\ Len(fetchCall.log) = 2
  /\ fetchCall.log[2] = PROXY_URL \o
       <<"https", "%3A", "%2F", "%2F", "api.bybit.com", "%2F", "v5", "%2F",
         "market", "%2F", "tickers", "%3F", "category", "%3D", "spot", "%26",
         "symbol", "%3D", "BTC", "USDT">>
  /\ fetchCall.data = Value(TickerBody("Bybit", "btc"))

\* avgLoss is 0 at result[i]: no loss was added to it, the one at index
\* period being the one the code leaves out (L75-76).
AvgLossIsZero(data, period, i) ==
  \A j \in 1..i : j # period => loss(data, j) = 0

\* C14: every RSI value that is not null is a number in [0, 100], and is
\* exactly 100 where avgLoss is 0, also when avgGain is 0 too.
C14_RsiBoundedAndHundredWithoutLoss ==
  ind.fn = "RSI" =>
    \A i \in 1..Len(ind.out) :
      ind.out[i] # Null =>
        /\ ind.out[i].kind = "num"
        /\ ~Less(ind.out[i], Whole(0)) /\ ~Less(Whole(100), ind.out[i])
        /\ AvgLossIsZero(ind.data, ind.period, i - 1) =>
             ind.out[i] = Whole(100)

\* C15: every call of an indicator function returns: it does not throw, its
\* output has one slot per candle, and it is empty for the empty input.
C15_IndicatorsTotal ==
  ind.pc = "done" =>
    /\ ~ind.raised
    /\ IF ind.fn = "KDJ"
         THEN /\ Len(ind.kdj.k) = Len(ind.data)
              /\ Len(ind.kdj.d) = Len(ind.data)
              /\ Len(ind.kdj.j) = Len(ind.data)
         ELSE Len(ind.out) = Len(ind.data)

\* C16: a ticker fetcher that gives a TickerData back built it from an
\* answer that has the ticker: its symbol and its other fields are defined.
C16_NoTickerFromMalformedAnswer ==
  fetchCall.result.kind = "value" =>
    /\ fetchCall.result.ticker.symbol # NoSymbol
    /\ fetchCall.result.ticker.defined = TickerFields
    /\ fetchCall.result.ticker.exchange = fetchCall.exchange

\* C17: on every exchange, fetchKlines gives the empty sequence back for
\* every failed request and every malformed answer, and never rejects; the
\* loadData that awaited it does not go to its catch block, and unless
\* superseded it ends in SUCCESS with an empty series and the stream
\* subscribed.
C17_BatchFailureSwallowed ==
  /\ [](\A e \in Exchanges :
         \A outcome \in KlineOutcomes(e) \ BatchOutcomes(e) :
           /\ fetchKlines(e, outcome).kind = "value"
           /\ fetchKlines(e, outcome).candles = <<>>)
  /\ [][\A t \in CallIds :
          (calls[t].pc = "klines" /\ Resumes(t)) =>
            /\ calls'[t].pc \in {"done", "ret_klines"}
            /\ (calls'[t].klinesError /\ ~calls[t].aborted) =>
                 /\ status' = SUCCESS
                 /\ klineData' = <<>>
                 /\ displayedSymbol' = displayedSymbol
                 /\ ws' # NoId]_vars

\* The search settled on Gate, whose candle request failed: SUCCESS with an
\* empty series.
C17_Witness ==
  /\ calls[1].pc = "done" /\ calls[1].klinesError
  /\ status = SUCCESS /\ klineData = <<>>
  /\ tickerData.exchange = "Gate" /\ ws # NoId

\* C18: in every state of the stream manager a teardown leaves both handles
\* null, no socket live and no timer armed; a teardown of that result, and a
\* teardown while idle, change nothing.
C18_TeardownIdempotent ==
  LET st1 == unsubscribeKline(StreamState)
  IN /\ st1.ws = NoId /\ st1.pingInterval = NoId
     /\ \A s \in SockIds : st1.sockets[s].state \in {"NONE", "CLOSED"}
     /\ \A i \in SockIds : st1.timers[i] = 0
     /\ ws # NoId => st1.sockets[ws].state = "CLOSED"
     /\ unsubscribeKline(st1) = st1
     /\ (ws = NoId /\ pingInterval = NoId) => st1 = StreamState

\* The one subscription made was open, streamed a candle, and was torn down.
C18_Witness ==
  /\ nSocks = 1 /\ ws = NoId /\ pingInterval = NoId
  /\ sockets[1].state = "CLOSED" /\ timers[1] = 0
  /\ msgsLeft = 0

\* C19: the keep-alive timer is started only by the opening of a socket and
\* only with the period of its exchange (Bybit and OKX 20000 ms, MEXC and
\* Gate 30000 ms, no timer for Binance); a keep-alive frame goes out only
\* on the current socket while it is open and its timer is armed, and a
\* socket that is not open sends nothing.
KeepAlivePeriod(exchange) ==
  IF exchange \in {"Bybit", "OKX"} THEN 20000
  ELSE IF exchange \in {"MEXC", "Gate"} THEN 30000
  ELSE 0
C19_KeepAliveOnlyOnOpenAndWhenOpen ==
  /\ [](\A i \in SockIds :
          timers[i] > 0 => /\ sockets[i].exchange # "Binance"
                           /\ timers[i] = KeepAlivePeriod(sockets[i].exchange))
  /\ [][\A i \in SockIds :
          LET opens == sockets[i].state = "CONNECTING" /\ sockets'[i].state = "OPEN"
              new == sockets'[i].sent \ sockets[i].sent
          IN /\ (timers[i] = 0 /\ timers'[i] > 0) => opens
             /\ opens => timers'[i] = KeepAlivePeriod(sockets[i].exchange)
             /\ opens => \A f \in new : f.kind = "subscribe"
             /\ (new # {} /\ ~opens) =>
                   /\ i = ws
                   /\ sockets[i].state = "OPEN"
                   /\ timers[i] > 0
                   /\ \A f \in new : f.kind = "keepalive"
             /\ sockets'[i].state # "OPEN" => new = {}]_vars
C19_Witness ==
  /\ ws # NoId
  /\ sockets[ws].state = "OPEN"
  /\ sockets[ws].exchange = "Gate"
  /\ timers[ws] = 30000
  /\ \E f \in sockets[ws].sent : f.kind = "keepalive"

\* C20: a socket error changes neither the socket handle nor the timer
\* handle nor any timer nor any other socket, and creates no socket; once
\* the current socket has failed, the subscription changes only by a
\* subscribe call or a teardown call.
Errored == ws # NoId /\ sockets[ws].state = "CLOSED"
C20_ErrorLeavesSubscription ==
  /\ [](\A s \in LiveSockets :
          LET st1 == onerror(connectionFails(StreamState, s), s)
          IN /\ st1.ws = ws
             /\ st1.pingInterval = pingInterval
             /\ st1.timers = timers
             /\ \A r \in SockIds \ {s} : st1.sockets[r] = sockets[r]
             /\ st1.sockets[s] = [sockets[s] EXCEPT !.state = "CLOSED"])
  /\ [][Errored =>
          \/ StreamState' = StreamState
          \/ StreamState' = unsubscribeKline(StreamState)
          \/ \E i \in SelectorIntervals, e \in Exchanges :
               StreamState' = subscribeToKline(StreamState, nSocks + 1, "BTC", i, e)]_vars
C20_Witness ==
  /\ Errored
  /\ pingInterval = ws
  /\ timers[ws] > 0
  /\ sockets[ws].exchange = "Bybit"
  /\ sockets[ws].sent = {SubscribeFrame(sockets[ws])}

\* C21: on every open socket, a frame that is a candle update of the
\* exchange (parses as JSON, carries the discriminator and one candle) is
\* handed to the callback as the parsed candle, and every other frame is
\* dropped without an error.
CandleShaped(frame) ==
  frame.text = "json" /\ frame.tag /\ frame.data = "candle"
C21_OnlyCandleUpdatesReachCallback ==
  \A s \in SockIds :
    sockets[s].state = "OPEN" =>
      \A frame \in InboundFrames(sockets[s].exchange) :
        LET r == onmessage(sockets[s].exchange, frame)
        IN IF CandleShaped(frame)
             THEN /\ r.kind = "callback"
                  /\ r.time \in {SecondMs * i : i \in 0..(Limit + MaxSeriesMsgs)}
             ELSE r.kind = "dropped"

\* C22: after a fast-path success of a new search the invocation goes on to
\* the candle request with the availability probe outstanding, and when the
\* probe settles it changes the availability list only if the controller of
\* its invocation is still the current one; under a replaced controller the
\* list is left as it is.
C22_BackgroundProbeDetachedAndGuarded ==
  [][\A t \in CallIds :
       /\ (calls[t].pc = "ticker" /\ calls'[t].pc = "klines") =>
            calls'[t].bg = calls[t].isNewSearch
       /\ (calls[t].bg /\ ~calls'[t].bg) =>
            /\ calls'[t].pc = calls[t].pc
            /\ klineData' = klineData /\ ws' = ws
            /\ abortControllerRef # t => availableExchanges' = availableExchanges
            /\ availableExchanges' # availableExchanges =>
                  /\ abortControllerRef = t
                  /\ Len(availableExchanges') > 0]_vars
C22_Witness ==
  \E t \in CallIds :
    /\ calls[t].bg
    /\ calls[t].pc = "done"
    /\ abortControllerRef = t
    /\ ws # NoId
    /\ sockets[ws].state = "OPEN"
    /\ Len(klineData) > 0
    /\ availableExchanges = <<"Binance">>

\* C23: an invocation waits for candles only with its ticker chosen, on the
\* exchange of that ticker; the step that ends the wait writes the batch to
\* the series and to its mirror and opens the one new socket, and ticker,
\* candles and socket carry the same symbol, exchange and interval; no
\* other step of the dashboard opens a socket.
C23_TickerThenBatchThenStream ==
  /\ [](\A t \in CallIds :
          calls[t].pc = "klines" =>
            /\ calls[t].currentTicker # NoTicker
            /\ calls[t].currentTicker.exchange = calls[t].targetExchange
            /\ calls[t].currentTicker.symbol = calls[t].symbol)
  /\ [][/\ nSocks' # nSocks =>
            \E t \in CallIds : calls[t].pc = "klines" /\ calls'[t].pc = "done"
        /\ \A t \in CallIds :
             (calls[t].pc = "klines" /\ calls'[t].pc = "done") =>
               LET tk == calls[t].currentTicker
                   session == <<tk.symbol, tk.exchange, calls[t].interval>>
               IN /\ \A i \in 1..Len(klineData') :
                       klineData'[i].src = session /\ klineData'[i].close = 0
                  /\ klineDataRef' = klineData'
                  /\ status' = SUCCESS
                  /\ nSocks' = nSocks + 1
                  /\ ws' = nSocks'
                  /\ sockets[ws'].state = "NONE"
                  /\ sockets'[ws'].state = "CONNECTING"
                  /\ <<sockets'[ws'].symbol, sockets'[ws'].exchange,
                       sockets'[ws'].interval>> = session]_vars
C23_Witness ==
  /\ ws # NoId
  /\ sockets[ws].state = "OPEN"
  /\ sockets[ws].exchange = "Bybit"
  /\ calls[ws].pc = "done"
  /\ tickerData = Ticker(sockets[ws].symbol, "Bybit")
  /\ Len(klineData) = 1
  /\ klineData[1].src = <<sockets[ws].symbol, "Bybit", sockets[ws].interval>>
  /\ sockets[ws].interval # DefaultInterval

\* C24: calculateEMA returns as many values as there are candles: null
\* before index period - 1, the mean of the first period closes at index
\* period - 1, and close * k + previous * (1 - k) with k = 2 / (period + 1)
\* after it, so that no value depends on the running average of the
\* warm-up.
EmaAsSpecified(data, period, out) ==
  LET k == Num(2, period + 1)
      sum[i \in 0..Len(data)] ==
        IF i = 0 THEN 0 ELSE sum[i - 1] + data[i].close
  IN /\ Len(out) = Len(data)
     /\ \A i \in 1..Len(data) :
          IF i < period THEN out[i] = Null
          ELSE IF i = period THEN out[i] = Num(sum[period], period)
          ELSE out[i] = Add(Mul(Whole(data[i].close), k),
                            Mul(out[i - 1], Sub(Whole(1), k)))
C24_EmaSeededByMeanThenRecurrence ==
  (ind.pc = "done" /\ ind.fn = "EMA") =>
     /\ ~ind.raised
     /\ EmaAsSpecified(ind.data, ind.period, ind.out)

\* C25: calculateKDJ returns three lists as long as the input, null before
\* index period - 1; from there on, with RSV = 50 for a window whose high
\* equals its low and (close - low) / (high - low) * 100 otherwise,
\* K = 2/3 * Kprev + 1/3 * RSV, D = 2/3 * Dprev + 1/3 * K, J = 3K - 2D,
\* Kprev and Dprev being 50 at the first defined index.
Window(period, i) == (i - period + 1)..i
FlatWindow(data, period, i) ==
  \A a, b \in Window(period, i) : data[a].high = data[b].low
RsvAsSpecified(data, period, i) ==
  LET W == Window(period, i)
      lo == CHOOSE x \in {data[a].low : a \in W} : \A a \in W : x <= data[a].low
      hi == CHOOSE x \in {data[a].high : a \in W} : \A a \in W : x >= data[a].high
  IN IF hi = lo THEN Whole(50)
     ELSE Num((data[i].close - lo) * 100, hi - lo)
KdjAsSpecified(data, period, kdj) ==
  /\ Len(kdj.k) = Len(data) /\ Len(kdj.d) = Len(data) /\ Len(kdj.j) = Len(data)
  /\ \A i \in 1..Len(data) :
       IF i < period
         THEN kdj.k[i] = Null /\ kdj.d[i] = Null /\ kdj.j[i] = Null
         ELSE LET Kprev == IF i = period THEN Whole(50) ELSE kdj.k[i - 1]
                  Dprev == IF i = period THEN Whole(50) ELSE kdj.d[i - 1]
              IN /\ FlatWindow(data, period, i) =>
                      RsvAsSpecified(data, period, i) = Whole(50)
                 /\ kdj.k[i] = Add(Mul(Num(2, 3), Kprev),
                                   Mul(Num(1, 3), RsvAsSpecified(data, period, i)))
                 /\ kdj.d[i] = Add(Mul(Num(2, 3), Dprev), Mul(Num(1, 3), kdj.k[i]))
                 /\ kdj.j[i] = Sub(Mul(Whole(3), kdj.k[i]), Mul(Whole(2), kdj.d[i]))
C25_KdjRecurrence ==
  (ind.pc = "done" /\ ind.fn = "KDJ") =>
     KdjAsSpecified(ind.data, ind.period, ind.kdj)
C25_Witness ==
  /\ ind.pc = "done" /\ ind.fn = "KDJ"
  /\ Len(ind.data) = MaxCandles /\ ind.period = 3
  /\ FlatWindow(ind.data, 3, 3)
  /\ ~FlatWindow(ind.data, 3, 4)
  /\ ind.kdj.k[2] = Null
  /\ ind.kdj.k[3] = Whole(50)
  /\ ind.kdj.j[5] \notin {Null, Whole(50)}

\* C26: in calculateSAR the acceleration factor starts at 0.02 and never
\* exceeds 0.2; a tick that inverts the trend sets it to 0.02, a tick that
\* keeps the trend and takes the extreme point further adds 0.02 up to
\* 0.2, and every other tick leaves it as it was.
Flipped(steps, i) == steps[i].isUptrend # steps[i - 1].isUptrend
NewExtreme(data, steps, i) ==
  /\ ~Flipped(steps, i)
  /\ IF steps[i - 1].isUptrend
       THEN Less(steps[i - 1].ep, Whole(data[i].high))
       ELSE Less(Whole(data[i].low), steps[i - 1].ep)
C26_AccelerationFactorCappedAndStepped ==
  (ind.pc = "done" /\ ind.fn = "SAR") =>
    \A i \in 1..Len(ind.steps) :
      LET af == ind.steps[i].af IN
      /\ ~Less(Num(2, 10), af)
      /\ i = 1 => af = Num(2, 100)
      /\ i > 1 =>
           LET before == ind.steps[i - 1].af
               raised == Add(before, Num(2, 100))
           IN IF Flipped(ind.steps, i) THEN af = Num(2, 100)
              ELSE IF NewExtreme(ind.data, ind.steps, i)
                THEN af = IF Less(raised, Num(2, 10)) THEN raised ELSE Num(2, 10)
              ELSE af = before
C26_Witness ==
  /\ ind.pc = "done" /\ ind.fn = "SAR"
  /\ Len(ind.steps) = MaxWalk
  /\ ind.steps[MaxWalk - 3].af = Num(18, 100)
  /\ ind.steps[MaxWalk - 2].af = Num(2, 10)
  /\ NewExtreme(ind.data, ind.steps, MaxWalk - 1)
  /\ ind.steps[MaxWalk - 1].af = Num(2, 10)
  /\ Flipped(ind.steps, MaxWalk)
  /\ ind.steps[MaxWalk].af = Num(2, 100)

\* C27: in calculateSAR the trend is inverted at a tick exactly if, in an
\* uptrend, the candle's low is below the stop computed for the tick
\* (previous stop moved by af towards the extreme point, not above the two
\* previous lows) or, in a downtrend, its high is above it (not below the
\* two previous highs); an inverting tick records the previous extreme
\* point as its stop and takes the candle's low (high) as the new extreme
\* point, every other tick records the computed stop.
Lowest(S) == CHOOSE x \in S : \A y \in S : ~Less(y, x)
Highest(S) == CHOOSE x \in S : \A y \in S : ~Less(x, y)
ClampedSar(data, steps, i) ==
  LET pv == steps[i - 1]
      moved == Add(pv.sar, Mul(pv.af, Sub(pv.ep, pv.sar)))
      two == {i - 1} \cup (IF i > 2 THEN {i - 2} ELSE {})
  IN IF pv.isUptrend
       THEN Lowest({moved} \cup {Whole(data[a].low) : a \in two})
       ELSE Highest({moved} \cup {Whole(data[a].high) : a \in two})
Breach(data, steps, i) ==
  IF steps[i - 1].isUptrend
    THEN Less(Whole(data[i].low), ClampedSar(data, steps, i))
    ELSE Less(ClampedSar(data, steps, i), Whole(data[i].high))
C27_TrendFlipsExactlyOnBreach ==
  (ind.pc = "done" /\ ind.fn = "SAR") =>
    /\ \A i \in 1..Len(ind.steps) : ind.out[i] = ind.steps[i].sar
    /\ \A i \in 2..Len(ind.steps) :
         LET pv == ind.steps[i - 1]
             st == ind.steps[i]
         IN /\ Flipped(ind.steps, i) <=> Breach(ind.data, ind.steps, i)
            /\ Breach(ind.data, ind.steps, i) =>
                 /\ st.sar = pv.ep
                 /\ st.ep = IF pv.isUptrend THEN Whole(ind.data[i].low)
                                             ELSE Whole(ind.data[i].high)
                 /\ st.isUptrend = ~pv.isUptrend
            /\ ~Breach(ind.data, ind.steps, i) =>
                 st.sar = ClampedSar(ind.data, ind.steps, i)
C27_Witness ==
  /\ ind.pc = "done" /\ ind.fn = "SAR"
  /\ \E i, j \in 2..Len(ind.steps) :
       /\ i < j
       /\ Breach(ind.data, ind.steps, i) /\ ~ind.steps[i].isUptrend
       /\ Breach(ind.data, ind.steps, j) /\ ind.steps[j].isUptrend
       /\ ind.out[j] = ind.steps[j - 1].ep
       /\ \E a \in 2..Len(ind.steps) :
            /\ ~Breach(ind.data, ind.steps, a)
            /\ ind.out[a] \notin {Whole(ind.data[b].low) : b \in 1..a}
                              \cup {Whole(ind.data[b].high) : b \in 1..a}

\* C28: when the relay answers with an envelope that has a contents
\* string, fetchWithFallback settles with the value the string parses to
\* and, for a string that does not parse (the empty string too), with the
\* string itself; it does not reject.
C28_RelayContentsParsedOrReturnedRaw ==
  (/\ fetchCall.pc = "done"
   /\ fetchCall.relay.net = "ok" /\ fetchCall.relay.ok /\ fetchCall.relay.json
   /\ fetchCall.relay.contents.kind # "absent") =>
     fetchCall.data =
       IF fetchCall.relay.contents.kind = "json"
         THEN Value(fetchCall.relay.contents.value)
         ELSE Value(StringValue)

\* C29: the candles of a Gate history carry millisecond times, a thousand
\* times the seconds of their rows, and the Gate stream's candle for the
\* bucket of the last stored candle, sent in seconds, is handed over with
\* that candle's time, so that it takes its place and the series keeps its
\* length.
C29_GateSecondsBecomeMilliseconds ==
  (/\ ws # NoId
   /\ sockets[ws].state = "OPEN"
   /\ sockets[ws].exchange = "Gate"
   /\ Len(klineDataRef) > 0) =>
     LET last == Last(klineDataRef)
         seconds == last.time \div 1000
         r == onmessage("Gate", Frame("json", TRUE, "candle", seconds))
         merged == streamCallback(klineDataRef, Candle(r.time, 1, last.src))
     IN /\ \A i \in 1..Len(klineDataRef) :
             klineDataRef[i].close = 0 => klineDataRef[i].time = 1000 * i
        /\ last.time = 1000 * seconds
        /\ r = Callback(last.time)
        /\ merged = Append(Front(klineDataRef), Candle(last.time, 1, last.src))
        /\ Len(merged) = Len(klineDataRef)
C29_Witness ==
  /\ ws # NoId
  /\ sockets[ws].state = "OPEN"
  /\ sockets[ws].exchange = "Gate"
  /\ msgsLeft = MaxMsgs - 1
  /\ klineDataRef = <<Candle(1000, 1, <<sockets[ws].symbol, "Gate", sockets[ws].interval>>)>>
  /\ klineData = klineDataRef

\* C30: a candle handed to the stream callback while the series is empty
\* is appended: the series and its mirror hold that one candle afterwards.
C30_MergeIntoEmptySeriesAppends ==
  [][(msgsLeft' = msgsLeft - 1 /\ Len(klineDataRef) = 0) =>
       /\ Len(klineDataRef') = 1
       /\ klineDataRef'[1].close = 1
       /\ klineData' = klineDataRef']_vars

\* C31: a socket that is not closed is the current one and was opened by
\* the invocation whose controller is current; the start of a loadData
\* leaves no socket open, a socket is opened only by the invocation whose
\* controller is current and not aborted, an aborted invocation that
\* resumes touches neither the sockets nor the series, and a candle reaches
\* the series only from the current socket, for the session that opened it.
C31_SupersededSubscriptionNeverWrites ==
  /\ [](\A s \in LiveSockets :
          /\ s = ws
          /\ abortControllerRef # NoId
          /\ calls[abortControllerRef].pc = "done"
          /\ ~calls[abortControllerRef].aborted)
  /\ [][/\ nLoads' # nLoads => LiveSockets' = {}
        /\ nSocks' # nSocks =>
             /\ abortControllerRef # NoId
             /\ ~calls[abortControllerRef].aborted
             /\ calls[abortControllerRef].pc = "klines"
             /\ calls'[abortControllerRef].pc = "done"
        /\ \A t \in CallIds :
             (/\ calls[t].aborted
              /\ calls[t].pc \in Suspended
              /\ calls'[t].pc # calls[t].pc) =>
               UNCHANGED <<streamVars, nSocks, klineData, klineDataRef>>
        /\ msgsLeft' = msgsLeft - 1 =>
             /\ ws # NoId
             /\ sockets[ws].state = "OPEN"
             /\ calls[abortControllerRef].pc = "done"
             /\ klineData' # klineData =>
                  Last(klineData').src = <<sockets[ws].symbol, sockets[ws].exchange,
                                           sockets[ws].interval>>]_vars

\* A session had streamed a candle; an interval change was started over it
\* and then an exchange switch: the first socket is closed, the aborted
\* interval change has returned without opening one, the switch has opened
\* the second.
C31_Witness ==
  /\ nLoads = 3 /\ nSocks = 2 /\ ws = 2
  /\ sockets[1].state = "CLOSED"
  /\ calls[2].aborted /\ calls[2].pc = "ret_klines"
  /\ abortControllerRef = 3 /\ calls[3].pc = "done"
  /\ sockets[2].state = "OPEN"

\* C32: on every socket the interval named to the stream stands for the
\* same interval as the one the candle request of the same exchange and
\* interval names.  Request and socket of Binance, Bybit, Gate and OKX
\* share their interval names; the socket of MEXC names Min1 ... Day1 what
\* its request names 1m ... 1d.
IntervalNamed(exchange, channel, token) ==
  IF exchange = "MEXC" /\ channel = "stream"
    THEN CASE token = "Min1" -> "1m" [] token = "Min5" -> "5m"
           [] token = "Min15" -> "15m" [] token = "Min30" -> "30m"
           [] token = "Min60" -> "1h" [] token = "Min240" -> "4h"
           [] token = "Day1" -> "1d" [] OTHER -> token
    ELSE token
C32_StreamAndSnapshotNameSameInterval ==
  \A s \in LiveSockets :
    IntervalNamed(sockets[s].exchange, "stream", sockets[s].token)
      = IntervalNamed(sockets[s].exchange, "snapshot",
                      klinesInterval(sockets[s].exchange, sockets[s].interval))

\* C33: at every tick of calculateSAR after the first candle that does not
\* reverse the trend, the stop recorded in an uptrend is not above the low
\* of either of the two previous candles (of the one previous candle at the
\* first tick), and the stop recorded in a downtrend is not below the high
\* of either of them.
TwoBack(i) == {i - 1} \cup (IF i > 2 THEN {i - 2} ELSE {})
C33_StopOutsideTwoPreviousCandles ==
  (ind.pc = "done" /\ ind.fn = "SAR") =>
    \A i \in 2..Len(ind.steps) :
      ~ind.steps[i].reversed =>
        \A a \in TwoBack(i) :
          IF ind.steps[i].isUptrend
            THEN ~Less(Whole(ind.data[a].low), ind.out[i])
            ELSE ~Less(ind.out[i], Whole(ind.data[a].high))
\* A rising series whose stop is held at the low two candles back, below the
\* low of the previous candle, and that later falls with the stop held at
\* the high two candles back.
C33_Witness ==
  /\ ind.pc = "done" /\ ind.fn = "SAR"
  /\ \E i, j \in 3..Len(ind.steps) :
       /\ ~ind.steps[i].reversed /\ ind.steps[i].isUptrend
       /\ ind.out[i] = Whole(ind.data[i - 2].low)
       /\ ind.data[i - 2].low < ind.data[i - 1].low
       /\ ~ind.steps[j].reversed /\ ~ind.steps[j].isUptrend
       /\ ind.out[j] = Whole(ind.data[j - 2].high)
       /\ ind.data[j - 2].high > ind.data[j - 1].high

\* C34: handleLogoClick leaves the home view (status IDLE, no displayed
\* symbol, no ticker, no stream subscription), and from the home view no
\* step other than a user operation that starts a loadData leaves it, an
\* invocation being in flight or not.
HomeView ==
  /\ status = IDLE /\ displayedSymbol = NULL /\ tickerData = NoTicker
  /\ ws = NoId /\ LiveSockets = {}
C34_HomeViewEndsSession ==
  [][/\ handleLogoClick => HomeView'
     /\ (HomeView /\ nLoads' = nLoads) => HomeView']_vars

\* C35: when every request eventually settles, the analysing flag raised
\* by a new search is eventually lowered, whatever interval changes or
\* exchange switches follow the search.
C35_AnalysingEventuallyEnds == isAnalyzing ~> ~isAnalyzing

\* C36: after a search whose first fetchTicker succeeded, with no second
\* search and every request eventually settling, the exchanges offered
\* eventually are those on which the background fetchAvailableTickers found
\* the symbol (here all that list it), whatever interval changes or
\* exchange switches are made before it settles.
C36_AvailabilityEventuallyProbed ==
  (\E t \in CallIds : calls[t].bg) ~> (Range(availableExchanges) = Listing)

\* C37: whenever a ticker is displayed and the list of available exchanges
\* is not empty, the exchange of the displayed ticker is in the list.
C37_ActiveExchangeListed ==
  (tickerData # NoTicker /\ Len(availableExchanges) > 0)
    => tickerData.exchange \in Range(availableExchanges)

\* C38: when every request eventually settles, a search that set the status
\* to LOADING eventually ends with the status SUCCESS or ERROR, unless a
\* user operation follows it (a loadData is started, or the logo is clicked
\* and the status is IDLE).
C38_SearchLeavesLoading ==
  \A n \in 1..MaxLoads :
    (status = LOADING /\ nLoads = n)
      ~> (status \in {SUCCESS, ERROR} \/ status = IDLE \/ nLoads # n)
\* A search has failed on every exchange and another has loaded its series,
\* each with no user operation after it.
C38_Witness ==
  /\ nLoads = 2
  /\ calls[1].pc = "caught" /\ calls[1].slow
  /\ calls[2].pc = "done" /\ ~calls[2].aborted
  /\ status = SUCCESS

\* C39: for a series of at least five candles, each with its open and its
\* close between its low and its high, the trend shown (up exactly if the
\* last close is above the last stop) is the direction calculateSAR holds
\* after its last candle.
WellFormed(k) ==
  /\ k.low <= k.open /\ k.open <= k.high
  /\ k.low <= k.close /\ k.close <= k.high
C39_ShownTrendIsSarDirection ==
  (/\ ind.pc = "done" /\ ind.fn = "SAR" /\ Len(ind.data) >= SarMinLen
   /\ \A i \in 1..Len(ind.data) : WellFormed(ind.data[i]))
    => (trendEffect(ind.data, ind.out) = "up"
          <=> ind.steps[Len(ind.steps)].isUptrend)

====
